---- MODULE Spec2Model ----
(***************************************************************************)
(* A state-machine model of the ICE agent facade of agent/agent.c: the     *)
(* agent's streams, components, candidates, discovery list, check list,    *)
(* timers and main-loop sources, and one action per facade operation.      *)
(*                                                                         *)
(* The discovery engine (discovery.c), the check-list engine (conncheck.c) *)
(* and stream.c/component.c are called by agent.c but are not part of the  *)
(* sources at hand; the operators that stand for them are modelled from    *)
(* the specification and are marked as such where they are defined.        *)
(***************************************************************************)
EXTENDS Integers, Sequences, FiniteSets, TLC

(***************************************************************************)
(* Bounds of the model.                                                    *)
(***************************************************************************)
\* streams ever appended to agent->streams (also caps next_stream_id)
MaxStreams == 2
\* largest n_components passed to add_stream
MaxComponents == 2
\* local addresses added to the agent
MaxAddrs == 2
\* remote candidates held by one component
MaxRemote == 2
\* failing callee outcomes injected into one facade call
MaxFaults == 1

\* the width of guint and gint, scaled down from the 32 bits of the build:
\* the conversion between the two wraps in the same way
IntBits == 4
\* MAX_STUN_DATAGRAM_PAYLOAD, the size of the receive buffers, scaled down
MAX_STUN_DATAGRAM_PAYLOAD == 2
\* datagrams waiting on the agent's sockets at one time
MaxPending == 1
\* NICE_STREAM_DEF_UFRAG and NICE_STREAM_DEF_PWD, the sizes of the generated
\* credentials (terminator included), and NICE_STREAM_MAX_UFRAG and
\* NICE_STREAM_MAX_PWD, the sizes of the credential buffers, scaled down
NICE_STREAM_DEF_UFRAG == 3
NICE_STREAM_DEF_PWD == 4
NICE_STREAM_MAX_UFRAG == 4
NICE_STREAM_MAX_PWD == 5

NULL == "NULL"

\* no nice_agent_recv call is blocked in select
NoRecv == [stream |-> 0, component |-> 0, fds |-> {}, buf_len |-> 0]

VARIABLES
  local_addresses,          \* agent->local_addresses: sequence of addresses
  streams,                  \* agent->streams: sequence of Stream records
  next_stream_id,           \* agent->next_stream_id
  stun_server_ip,           \* agent->stun_server_ip (NULL or a string)
  full_mode,                \* agent->full_mode
  discovery_list,           \* agent->discovery_list: sequence of CandidateDiscovery
  discovery_unsched_items,  \* agent->discovery_unsched_items
  discovery_timer_id,       \* agent->discovery_timer_id (0: no timer)
  conncheck_list,           \* agent->conncheck_list: set of candidate pairs
  conncheck_timer_id,       \* agent->conncheck_timer_id (0: no timer)
  keepalive_timer_id,       \* agent->keepalive_timer_id (0: no timer)
  main_context_set,         \* agent->main_context_set
  main_context,             \* agent->main_context: the GMainContext given, NULL when none is kept
  read_func,                \* agent->read_func: the receive callback, NULL when none is kept
  read_func_data,           \* agent->read_func_data: the user data of the callback
  attached,                 \* GSources attached to the main loop
  rng,                      \* agent->rng: the random generator, NULL once freed
  dispose_pc,               \* the statements of nice_agent_dispose done so far (0: not called)
  inbox,                    \* the datagram waiting on each socket that has one: fd -> datagram
  recv_call,                \* the nice_agent_recv call blocked in select, NoRecv when there is none
  sent,                     \* datagrams handed to nice_udp_socket_send by the last call
  lastOp,                   \* the name of the facade call (or engine step) that led here
  ret,                      \* what that call returned
  events,                   \* the signals that call emitted, in order
  gathering_done_seen,      \* history: candidate-gathering-done was emitted at least once
  signalled,                \* history: the state of the last component-state-changed of each component
  crashed                   \* the process dereferenced NULL or failed a g_assert

vars == <<local_addresses, streams, next_stream_id, stun_server_ip, full_mode,
          discovery_list, discovery_unsched_items, discovery_timer_id,
          conncheck_list, conncheck_timer_id, keepalive_timer_id,
          main_context_set, main_context, read_func, read_func_data, attached,
          rng, dispose_pc, inbox, recv_call, sent, lastOp, ret, events, gathering_done_seen, signalled,
          crashed>>

agentVars == <<local_addresses, streams, next_stream_id, stun_server_ip, full_mode,
               discovery_list, discovery_unsched_items, discovery_timer_id,
               conncheck_list, conncheck_timer_id, keepalive_timer_id,
               main_context_set, main_context, read_func, read_func_data, attached>>

(***************************************************************************)
(* Input alphabets.                                                        *)
(***************************************************************************)
Addrs == {[ip |-> "192.0.2.7", port |-> 5000]}
Descs == {"d1", "d2"}

\* the NiceAgentRecvFunc a caller can give
Funcs == {NULL, "func"}

\* what a caller of main_context_attach can give: the default context (NULL)
\* without callback, or a context with a callback and its user data
Callers == {[ctx |-> NULL, func |-> NULL, data |-> NULL],
            [ctx |-> "ctx", func |-> "func", data |-> "data"]}

\* what a callee of add_stream can do at one (address, component) step
HostFaults == {"host_fail"}
DiscoFaults == {"disco_alloc_fail", "disco_append1_fail", "disco_append2_fail"}

Event(sig, s, c) == [sig |-> sig, stream |-> s, component |-> c]

\* the characters of a string, and the terminator of a C string
Printable == {"a", "b"}
NUL == "0"

\* what the random generator can yield in one add_stream call, and one of
\* these outputs
RngOutputs == [1..(NICE_STREAM_DEF_UFRAG + NICE_STREAM_DEF_PWD - 2) -> Printable]
RngOutput == [i \in 1..(NICE_STREAM_DEF_UFRAG + NICE_STREAM_DEF_PWD - 2) |-> "a"]

Max(a, b) == IF a > b THEN a ELSE b

(***************************************************************************)
(* Lookup.                                                                 *)
(***************************************************************************)
\* agent_find_stream: the position of the first stream with this id, 0 for NULL
agent_find_stream(strs, stream_id) ==
  IF \E k \in 1..Len(strs) : strs[k].id = stream_id
  THEN CHOOSE k \in 1..Len(strs) :
         /\ strs[k].id = stream_id
         /\ \A j \in 1..(k - 1) : strs[j].id # stream_id
  ELSE 0

\* stream_find_component_by_id: the position of the component, 0 for NULL
stream_find_component_by_id(stream, component_id) ==
  IF \E k \in 1..Len(stream.components) : stream.components[k].id = component_id
  THEN CHOOSE k \in 1..Len(stream.components) : stream.components[k].id = component_id
  ELSE 0

\* agent_find_component: [found, s, c]; found is the gboolean returned, s and c
\* the positions written through the out parameters (c = 0: *component = NULL)
agent_find_component(strs, stream_id, component_id) ==
  LET s == agent_find_stream(strs, stream_id)
  IN IF s = 0
     THEN [found |-> FALSE, s |-> 0, c |-> 0]
     ELSE [found |-> TRUE, s |-> s,
           c |-> stream_find_component_by_id(strs[s], component_id)]

\* (stream_id, component_id) names a component the agent holds
Names(stream_id, component_id) ==
  LET f == agent_find_component(streams, stream_id, component_id)
  IN f.found /\ f.c # 0

(***************************************************************************)
(* Construction of streams and components (stream.c, component.c).         *)
(***************************************************************************)
component_new(id) ==
  [id |-> id,
   state |-> "disconnected",
   sockets |-> <<>>,
   local_candidates |-> <<>>,
   remote_candidates |-> <<>>,
   gsources |-> <<>>,
   selected_pair |-> [local |-> 0, remote |-> 0],
   media_after_tick |-> FALSE]

\* a character buffer of size bytes as g_slice_new0 leaves it
Zeroed(size) == [i \in 1..size |-> NUL]

\* ptr stands for the address of the Stream object: it never changes, while
\* id is reset to 0 by a failing add_stream
stream_new(ptr, n_components) ==
  [ptr |-> ptr,
   id |-> 0,
   components |-> [k \in 1..n_components |-> component_new(k)],
   initial_binding_request_received |-> FALSE,
   local_ufrag |-> Zeroed(NICE_STREAM_MAX_UFRAG),
   local_password |-> Zeroed(NICE_STREAM_MAX_PWD),
   remote_ufrag |-> Zeroed(NICE_STREAM_MAX_UFRAG),
   remote_password |-> Zeroed(NICE_STREAM_MAX_PWD)]

\* the C string a character buffer holds: the characters before the first
\* terminator
CString(buf) ==
  LET n == IF \E i \in DOMAIN buf : buf[i] = NUL
           THEN (CHOOSE i \in DOMAIN buf :
                   buf[i] = NUL /\ \A j \in 1..(i - 1) : buf[j] # NUL) - 1
           ELSE Len(buf)
  IN SubSeq(buf, 1, n)

\* nice_rng_generate_bytes_print (rng, len, buf): writes the next len
\* printable characters of the generator, those after the first skip ones of
\* bytes, at the start of buf
nice_rng_generate_bytes_print(bytes, skip, len, buf) ==
  [i \in DOMAIN buf |-> IF i <= len THEN bytes[skip + i] ELSE buf[i]]

\* variant that does not terminate the copy
g_strlcpy_unterminated(dest, src, dest_size) ==
  [i \in DOMAIN dest |-> IF i <= Len(src) /\ i <= dest_size - 1 THEN src[i] ELSE dest[i]]

\* g_strlcpy (dest, src, dest_size): copies at most dest_size - 1 characters
\* of src and terminates them
g_strlcpy(dest, src, dest_size) ==
  LET n == IF Len(src) < dest_size - 1 THEN Len(src) ELSE dest_size - 1
  IN [i \in DOMAIN dest |-> IF i <= n THEN src[i]
                            ELSE IF i = n + 1 THEN NUL
                            ELSE dest[i]]

Range(q) == {q[i] : i \in DOMAIN q}

AllSockets(strs) ==
  UNION {UNION {Range(strs[s].components[c].sockets) : c \in DOMAIN strs[s].components} :
           s \in DOMAIN strs}

\* a new socket gets the lowest file descriptor that is not open
FreshFd(strs) ==
  CHOOSE f \in 1..(MaxAddrs * MaxComponents * MaxStreams + 1) :
    /\ f \notin AllSockets(strs)
    /\ \A g \in 1..(f - 1) : g \in AllSockets(strs)

(***************************************************************************)
(* Host candidates and server-reflexive discoveries (add_stream's loop).   *)
(*                                                                         *)
(* acc is the agent state threaded through the loop:                       *)
(*   [streams, discovery_list, unsched, events].                           *)
(***************************************************************************)
\* discovery_add_local_host_candidate (discovery.c): binds a socket on addr and
\* adds a host candidate to the component that (stream_id, component_id) names;
\* NULL when the component is not found or the socket cannot be made
discovery_add_local_host_candidate(acc, stream_id, component_id, addr, fail) ==
  LET f == agent_find_component(acc.streams, stream_id, component_id)
  IN IF ~f.found \/ f.c = 0 \/ fail
     THEN [ok |-> FALSE, acc |-> acc]
     ELSE LET fd == FreshFd(acc.streams)
              cand == [type |-> "host", addr |-> addr, sockptr |-> fd]
          IN [ok |-> TRUE,
              acc |-> [acc EXCEPT
                 !.streams[f.s].components[f.c].sockets = Append(@, fd),
                 !.streams[f.s].components[f.c].local_candidates = Append(@, cand),
                 !.events = Append(@, Event("new-candidate", stream_id, component_id))]]

\* the CandidateDiscovery object made for (stream, component, interface)
CandidateDiscovery(stream, component_id, interface) ==
  [stream |-> stream.ptr, component |-> component_id, interface |-> interface,
   status |-> "unsent"]

\* priv_add_srv_rfx_candidate_discovery: k is the position of the stream,
\* outcome what the allocator does ("ok" or one of DiscoFaults)
priv_add_srv_rfx_candidate_discovery(acc, k, component_id, interface, outcome) ==
  LET cdisco == CandidateDiscovery(acc.streams[k], component_id, interface)
  IN IF outcome = "disco_alloc_fail"
     THEN [res |-> FALSE, acc |-> acc]
     ELSE IF outcome = "disco_append1_fail"
     THEN [res |-> TRUE, acc |-> acc]
     ELSE IF outcome = "disco_append2_fail"
     THEN [res |-> TRUE,
           acc |-> [acc EXCEPT !.discovery_list = Append(@, cdisco)]]
     ELSE [res |-> TRUE,
           acc |-> [acc EXCEPT !.discovery_list = Append(Append(@, cdisco), cdisco),
                               !.unsched = @ + 1]]

\* the two nested loops of nice_agent_add_stream over local addresses (i) and
\* components (n); k is the position of the new stream, plan the callee
\* outcome at each (i, n). A failure zeroes stream->id and breaks the inner
\* loop only.
RECURSIVE AddStreamLoop(_, _, _, _, _, _)
AddStreamLoop(acc, k, i, n, n_components, plan) ==
  IF i > Len(local_addresses) THEN acc
  ELSE IF n > n_components THEN AddStreamLoop(acc, k, i + 1, 1, n_components, plan)
  ELSE
    LET h == discovery_add_local_host_candidate(acc, acc.streams[k].id, n,
                 local_addresses[i], plan[<<i, n>>] = "host_fail")
    IN IF ~h.ok
       THEN AddStreamLoop([h.acc EXCEPT !.streams[k].id = 0], k, i + 1, 1, n_components, plan)
       ELSE IF full_mode /\ stun_server_ip # NULL
       THEN LET d == priv_add_srv_rfx_candidate_discovery(h.acc, k, n, i, plan[<<i, n>>])
            IN IF ~d.res
               THEN AddStreamLoop([d.acc EXCEPT !.streams[k].id = 0], k, i + 1, 1, n_components, plan)
               ELSE AddStreamLoop(d.acc, k, i, n + 1, n_components, plan)
       ELSE AddStreamLoop(h.acc, k, i, n + 1, n_components, plan)

(***************************************************************************)
(* Main-loop sources.                                                      *)
(***************************************************************************)
\* the GSource that watches socket fd of a component; n tells apart the
\* sources one component holds
GSource(stream, component_id, fd, n) ==
  [stream |-> stream.ptr, component |-> component_id, fd |-> fd, n |-> n]

\* priv_attach_new_stream on the stream at position k: one source per socket,
\* attached and appended to component->gsources; when the append for the
\* fail_at-th socket fails the source is destroyed and FALSE returned.
\* st = [streams, attached, res, made]
RECURSIVE AttachLoop(_, _, _, _, _)
AttachLoop(st, k, c, j, fail_at) ==
  IF c > Len(st.streams[k].components) THEN st
  ELSE IF j > Len(st.streams[k].components[c].sockets) THEN AttachLoop(st, k, c + 1, 1, fail_at)
  ELSE
    LET comp == st.streams[k].components[c]
        source == GSource(st.streams[k], comp.id, comp.sockets[j], Len(comp.gsources) + 1)
    IN IF st.made + 1 = fail_at
       THEN [st EXCEPT !.res = FALSE]
       ELSE AttachLoop([st EXCEPT !.streams[k].components[c].gsources = Append(@, source),
                                  !.attached = @ \cup {source},
                                  !.made = @ + 1],
                       k, c, j + 1, fail_at)

priv_attach_new_stream(strs, att, k, fail_at) ==
  AttachLoop([streams |-> strs, attached |-> att, res |-> TRUE, made |-> 0], k, 1, 1, fail_at)

StreamSources(stream) ==
  UNION {Range(stream.components[c].gsources) : c \in DOMAIN stream.components}

\* variant that destroys no source (C7 must tell it from the code)
priv_deattach_stream_none(att, stream) == att

\* priv_deattach_stream: destroys every source listed in the gsources of the
\* stream's components; att is the set of attached sources (the stream is
\* freed right after, so its emptied gsources lists are not kept)
priv_deattach_stream(att, stream) == att \ StreamSources(stream)

\* the sockets add_stream may try to attach: one per (address, component)
NSockets(stream) ==
  LET RECURSIVE Sum(_)
      Sum(c) == IF c = 0 THEN 0 ELSE Len(stream.components[c].sockets) + Sum(c - 1)
  IN Sum(Len(stream.components))

(***************************************************************************)
(* The discovery engine's list handling (discovery.c).                     *)
(***************************************************************************)
StreamByPtr(strs, ptr) ==
  IF \E k \in 1..Len(strs) : strs[k].ptr = ptr
  THEN CHOOSE k \in 1..Len(strs) : strs[k].ptr = ptr
  ELSE 0

SameDiscovery(a, b) ==
  a.stream = b.stream /\ a.component = b.component /\ a.interface = b.interface

\* discovery_free: drops every item and the timer
\* d = [discovery_list, unsched, timer]
discovery_free(d) ==
  [discovery_list |-> <<>>, unsched |-> 0, timer |-> 0]

\* discovery_prune_stream: drops the items of the streams whose id is
\* stream_id; an emptied list is freed
discovery_prune_stream(d, strs, stream_id) ==
  LET OfStream(x) == LET k == StreamByPtr(strs, x.stream)
                     IN k # 0 /\ strs[k].id = stream_id
      Kept(x) == ~OfStream(x)
      kept == SelectSeq(d.discovery_list, Kept)
      unsent == {<<x.stream, x.component, x.interface>> :
                   x \in {y \in Range(d.discovery_list) : OfStream(y) /\ y.status = "unsent"}}
  IN IF kept = <<>>
     THEN discovery_free(d)
     ELSE [d EXCEPT !.discovery_list = kept,
                    !.unsched = Max(0, @ - Cardinality(unsent))]

\* discovery_schedule: starts the pacing timer when items wait to be sent
discovery_schedule(d) ==
  IF d.unsched > 0 /\ d.timer = 0 THEN [d EXCEPT !.timer = 1] ELSE d

(***************************************************************************)
(* The check-list engine's list handling (conncheck.c).                    *)
(***************************************************************************)
\* a candidate pair: local and remote are positions in the candidate lists
\* of the component, which belongs to the Stream object owner
CandidatePair(stream, component_id, local, remote) ==
  [stream_id |-> stream.id, component_id |-> component_id,
   local |-> local, remote |-> remote, owner |-> stream.ptr]

\* conn_check_add_for_candidate: pairs the remote candidate at position
\* remote with each local candidate of the component; the pair for the
\* fail_at-th local candidate cannot be made (0: none fails).
\* Returns [res, list]: res the number of pairs added, or -1
conn_check_add_for_candidate(list, stream, c, remote, fail_at) ==
  LET comp == stream.components[c]
      n == Len(comp.local_candidates)
      upto == IF fail_at \in 1..n THEN fail_at - 1 ELSE n
  IN [res |-> IF fail_at \in 1..n THEN -1 ELSE n,
      list |-> list \cup {CandidatePair(stream, comp.id, l, remote) : l \in 1..upto}]

\* conn_check_prune_stream: drops the pairs of stream_id; an emptied list
\* stops the check timer. k = [conncheck_list, timer]
conn_check_prune_stream(k, stream_id) ==
  LET kept == {p \in k.conncheck_list : p.stream_id # stream_id}
  IN [conncheck_list |-> kept, timer |-> IF kept = {} THEN 0 ELSE k.timer]

\* conn_check_schedule_next: starts the check timer when pairs exist
conn_check_schedule_next(k) ==
  IF k.conncheck_list # {} /\ k.timer = 0 THEN [k EXCEPT !.timer = 1] ELSE k

\* conn_check_free: drops every pair and the check timer
conn_check_free(k) == [conncheck_list |-> {}, timer |-> 0]

(***************************************************************************)
(* What a call reports.                                                    *)
(***************************************************************************)
GatheringDone == Event("candidate-gathering-done", 0, 0)

Emits(ev, sig) == \E i \in DOMAIN ev : ev[i].sig = sig

\* the call sends nothing and reads no socket
NoTraffic == sent' = <<>> /\ UNCHANGED inbox

\* the sockets of a freed stream are closed: what waited on them is gone
Closed(box, stream) ==
  LET keep == {fd \in DOMAIN box : \A c \in DOMAIN stream.components :
                                     fd \notin Range(stream.components[c].sockets)}
  IN [fd \in keep |-> box[fd]]

\* the state carried by the last component-state-changed of each
\* (stream id, component id), after the signals ev were emitted
Signalled(sg, ev) ==
  LET Of(i) == <<ev[i].stream, ev[i].component>>
      changes == {i \in DOMAIN ev : ev[i].sig = "component-state-changed"}
      keys == {Of(i) : i \in changes}
      Last(k) == CHOOSE i \in changes : Of(i) = k /\ \A j \in changes : Of(j) = k => j <= i
  IN [k \in DOMAIN sg \cup keys |-> IF k \in keys THEN ev[Last(k)].state ELSE sg[k]]

\* the process is neither gone nor blocked in nice_agent_recv, and the agent
\* is not being disposed of: the facade is used from one thread, so that no
\* other call starts while recv blocks, and no call is made on an agent whose
\* last reference is dropped
Idle == ~crashed /\ recv_call = NoRecv /\ dispose_pc = 0

\* r was returned and the signals ev were emitted by op
Reports(op, r, ev) ==
  /\ lastOp' = op
  /\ crashed' = FALSE
  /\ ret' = r
  /\ events' = ev
  /\ gathering_done_seen' = (gathering_done_seen \/ Emits(ev, "candidate-gathering-done"))
  /\ signalled' = Signalled(signalled, ev)

\* the call op returned r after emitting the signals ev
Returns(op, r, ev) ==
  /\ Reports(op, r, ev)
  /\ UNCHANGED <<recv_call, rng, dispose_pc>>

\* the call op dereferenced NULL or failed a g_assert: the process is gone
Crashes(op) ==
  /\ lastOp' = op
  /\ crashed' = TRUE
  /\ UNCHANGED <<ret, events, gathering_done_seen, signalled, recv_call, rng, dispose_pc>>

(***************************************************************************)
(* Initial state: nice_agent_init and the construct-time properties.       *)
(***************************************************************************)
Init ==
  /\ local_addresses = <<>>
  /\ streams = <<>>
  /\ next_stream_id = 1
  /\ stun_server_ip = NULL
  /\ full_mode \in BOOLEAN
  /\ discovery_list = <<>>
  /\ discovery_unsched_items = 0
  /\ discovery_timer_id = 0
  /\ conncheck_list = {}
  /\ conncheck_timer_id = 0
  /\ keepalive_timer_id = 0
  /\ main_context_set = FALSE
  /\ main_context = NULL
  /\ read_func = NULL
  /\ read_func_data = NULL
  /\ attached = {}
  /\ rng = "rng"
  /\ dispose_pc = 0
  /\ inbox = <<>>
  /\ recv_call = NoRecv
  /\ sent = <<>>
  /\ lastOp = "new"
  /\ ret = 0
  /\ events = <<>>
  /\ gathering_done_seen = FALSE
  /\ signalled = <<>>
  /\ crashed = FALSE

(***************************************************************************)
(* Facade operations.                                                      *)
(***************************************************************************)
\* nice_agent_set_property (PROP_STUN_SERVER)
SetStunServer(ip) ==
  /\ Idle
  /\ stun_server_ip' = ip
  /\ Returns("set_stun_server", 0, <<>>)
  /\ NoTraffic
  /\ UNCHANGED <<local_addresses, streams, next_stream_id, full_mode,
                 discovery_list, discovery_unsched_items, discovery_timer_id,
                 conncheck_list, conncheck_timer_id, keepalive_timer_id,
                 main_context_set, main_context, read_func, read_func_data, attached>>

\* nice_agent_add_local_address; ok: g_slist_append returned a list
AddLocalAddress(addr, ok) ==
  /\ Idle
  /\ Len(local_addresses) < MaxAddrs
  /\ local_addresses' = IF ok THEN Append(local_addresses, [addr EXCEPT !.port = 0])
                                ELSE local_addresses
  /\ Returns("add_local_address", IF ok THEN 1 ELSE 0, <<>>)
  /\ NoTraffic
  /\ UNCHANGED <<streams, next_stream_id, stun_server_ip, full_mode,
                 discovery_list, discovery_unsched_items, discovery_timer_id,
                 conncheck_list, conncheck_timer_id, keepalive_timer_id,
                 main_context_set, main_context, read_func, read_func_data, attached>>

\* the callee outcomes add_stream(n_components) can meet: one per
\* (address, component) step, at most MaxFaults of them failures
Positions(n_components) == (1..Len(local_addresses)) \X (1..n_components)

FaultKinds ==
  IF full_mode /\ stun_server_ip # NULL THEN HostFaults \cup DiscoFaults ELSE HostFaults

Plans(n_components) ==
  UNION {{[p \in Positions(n_components) |-> IF p \in F THEN kf[p] ELSE "ok"] :
            kf \in [F -> FaultKinds]} :
         F \in {G \in SUBSET Positions(n_components) : Cardinality(G) <= MaxFaults}}

\* variant without the test of line 606 (C1 must tell it from the code)
NoLocalAddressUntested == FALSE

\* line 606: add_stream gives up when the agent has no local address
NoLocalAddress == local_addresses = <<>>

\* nice_agent_add_stream. alloc_ok: stream_new and g_slist_append succeeded;
\* plan: the callee outcomes of the candidate loop; attach_fail: the socket
\* whose source cannot be kept by priv_attach_new_stream (0: none); rnd: the
\* characters the random generator yields
AddStream(n_components, alloc_ok, plan, attach_fail, rnd) ==
  /\ Idle
  /\ NoTraffic
  /\ IF NoLocalAddress \/ ~alloc_ok
     THEN /\ Returns("add_stream", 0, <<>>)
          /\ UNCHANGED agentVars
     ELSE
       /\ next_stream_id <= MaxStreams
       /\ LET k == Len(streams) + 1
              new == [stream_new(next_stream_id, n_components) EXCEPT
                        !.id = next_stream_id,
                        !.local_ufrag = nice_rng_generate_bytes_print(
                                          rnd, 0, NICE_STREAM_DEF_UFRAG - 1, @),
                        !.local_password = nice_rng_generate_bytes_print(
                                             rnd, NICE_STREAM_DEF_UFRAG - 1,
                                             NICE_STREAM_DEF_PWD - 1, @)]
              acc0 == [streams |-> Append(streams, new),
                       discovery_list |-> discovery_list,
                       unsched |-> discovery_unsched_items,
                       events |-> <<>>]
              acc == AddStreamLoop(acc0, k, 1, 1, n_components, plan)
              sid == acc.streams[k].id
              att == IF main_context_set /\ sid > 0
                     THEN priv_attach_new_stream(acc.streams, attached, k, attach_fail)
                     ELSE [streams |-> acc.streams, attached |-> attached]
              d == [discovery_list |-> acc.discovery_list, unsched |-> acc.unsched,
                    timer |-> discovery_timer_id]
          IN /\ next_stream_id' = next_stream_id + 1
             /\ streams' = att.streams
             /\ attached' = att.attached
             /\ discovery_list' = acc.discovery_list
             /\ discovery_unsched_items' = acc.unsched
             /\ IF acc.unsched = 0
                THEN /\ Returns("add_stream", sid,
                                Append(acc.events, GatheringDone))
                     /\ UNCHANGED discovery_timer_id
                ELSE IF acc.discovery_list = <<>>
                THEN /\ Crashes("add_stream")
                     /\ UNCHANGED discovery_timer_id
                ELSE /\ Returns("add_stream", sid, acc.events)
                     /\ discovery_timer_id' = discovery_schedule(d).timer
             /\ UNCHANGED <<local_addresses, stun_server_ip, full_mode, conncheck_list,
                            conncheck_timer_id, keepalive_timer_id, main_context_set, main_context, read_func, read_func_data>>

\* variant that leaves the timer running
priv_remove_keepalive_timer_kept(timer_id) == timer_id

\* priv_remove_keepalive_timer: a running timer is removed, and the id is 0
\* afterwards
priv_remove_keepalive_timer(timer_id) == 0

\* nice_agent_remove_stream
RemoveStream(stream_id) ==
  /\ Idle
  /\ sent' = <<>>
  /\ inbox' = LET s == agent_find_stream(streams, stream_id)
               IN IF s = 0 THEN inbox ELSE Closed(inbox, streams[s])
  /\ Returns("remove_stream", 0, <<>>)
  /\ LET s == agent_find_stream(streams, stream_id)
     IN IF s = 0
        THEN UNCHANGED agentVars
        ELSE LET k == conn_check_prune_stream(
                        [conncheck_list |-> conncheck_list, timer |-> conncheck_timer_id],
                        stream_id)
                 d == discovery_prune_stream(
                        [discovery_list |-> discovery_list,
                         unsched |-> discovery_unsched_items,
                         timer |-> discovery_timer_id], streams, stream_id)
                 rest == [i \in 1..(Len(streams) - 1) |->
                            IF i < s THEN streams[i] ELSE streams[i + 1]]
             IN /\ conncheck_list' = k.conncheck_list
                /\ conncheck_timer_id' = k.timer
                /\ discovery_list' = d.discovery_list
                /\ discovery_unsched_items' = d.unsched
                /\ discovery_timer_id' = d.timer
                /\ attached' = priv_deattach_stream(attached, streams[s])
                /\ streams' = rest
                /\ keepalive_timer_id' = IF rest = <<>>
                                         THEN priv_remove_keepalive_timer(keepalive_timer_id)
                                         ELSE keepalive_timer_id
                /\ UNCHANGED <<local_addresses, next_stream_id, stun_server_ip,
                               full_mode, main_context_set, main_context, read_func, read_func_data>>

\* nice_agent_main_context_attach. ctx, func, data: the main context, the
\* receive callback and its user data given; fail = <<k, j>>: the source for
\* the j-th socket of the k-th stream cannot be kept (<<0, 0>>: none fails)
RECURSIVE AttachAll(_, _, _)
AttachAll(st, k, fail) ==
  IF k > Len(st.streams) THEN st
  ELSE LET a == priv_attach_new_stream(st.streams, st.attached, k,
                                       IF fail[1] = k THEN fail[2] ELSE 0)
       IN IF ~a.res THEN a ELSE AttachAll(a, k + 1, fail)

\* model bound: a source is lost only while no source is attached yet, so
\* that failed attempts do not pile up sources without end
AttachFaults ==
  {<<0, 0>>} \cup {f \in (1..Len(streams)) \X (1..(MaxAddrs * MaxComponents)) :
                    f[2] <= NSockets(streams[f[1]]) /\ attached = {}}

\* variant without the test of line 1556
AlreadyAttachedUntested == FALSE

\* line 1556: a context was attached before
AlreadyAttached == main_context_set

MainContextAttach(ctx, func, data, fail) ==
  /\ Idle
  /\ NoTraffic
  /\ IF AlreadyAttached
     THEN /\ Returns("main_context_attach", 0, <<>>)
          /\ UNCHANGED agentVars
     ELSE LET a == AttachAll([streams |-> streams, attached |-> attached,
                              res |-> TRUE, made |-> 0], 1, fail)
          IN /\ streams' = a.streams
             /\ attached' = a.attached
             /\ main_context_set' = a.res
             /\ main_context' = IF a.res THEN ctx ELSE main_context
             /\ read_func' = IF a.res THEN func ELSE read_func
             /\ read_func_data' = IF a.res THEN data ELSE read_func_data
             /\ Returns("main_context_attach", IF a.res THEN 1 ELSE 0, <<>>)
             /\ UNCHANGED <<local_addresses, next_stream_id, stun_server_ip, full_mode,
                            discovery_list, discovery_unsched_items, discovery_timer_id,
                            conncheck_list, conncheck_timer_id, keepalive_timer_id>>

\* variant that frees the streams before anything else
DisposeStepsStreamsFirst ==
  <<"streams", "discovery_free", "conn_check_free", "priv_remove_keepalive_timer",
    "local_addresses", "stun_server_ip", "rng">>

\* the statements of nice_agent_dispose, in the order of the function body
\* (lines 1376, 1380, 1383, 1385-1393, 1395-1403, 1405-1408, 1410-1411)
DisposeSteps ==
  <<"discovery_free", "conn_check_free", "priv_remove_keepalive_timer",
    "local_addresses", "streams", "stun_server_ip", "rng">>

\* nice_agent_dispose, one statement at a time: the last reference to the
\* agent is dropped while no call is in progress, and the function runs to
\* its end without any other call in between. stream_free closes the sockets
\* of a stream and frees its components and candidates
Dispose ==
  /\ ~crashed
  /\ recv_call = NoRecv
  /\ dispose_pc < Len(DisposeSteps)
  /\ LET step == DisposeSteps[dispose_pc + 1]
         d == IF step = "discovery_free"
              THEN discovery_free([discovery_list |-> discovery_list,
                                   unsched |-> discovery_unsched_items,
                                   timer |-> discovery_timer_id])
              ELSE [discovery_list |-> discovery_list, unsched |-> discovery_unsched_items,
                    timer |-> discovery_timer_id]
         k == IF step = "conn_check_free"
              THEN conn_check_free([conncheck_list |-> conncheck_list,
                                    timer |-> conncheck_timer_id])
              ELSE [conncheck_list |-> conncheck_list, timer |-> conncheck_timer_id]
     IN /\ dispose_pc' = dispose_pc + 1
        /\ discovery_list' = d.discovery_list
        /\ discovery_unsched_items' = d.unsched
        /\ discovery_timer_id' = d.timer
        /\ conncheck_list' = k.conncheck_list
        /\ conncheck_timer_id' = k.timer
        /\ keepalive_timer_id' = IF step = "priv_remove_keepalive_timer"
                                 THEN priv_remove_keepalive_timer(keepalive_timer_id)
                                 ELSE keepalive_timer_id
        /\ local_addresses' = IF step = "local_addresses" THEN <<>> ELSE local_addresses
        /\ streams' = IF step = "streams" THEN <<>> ELSE streams
        /\ inbox' = IF step = "streams"
                    THEN [fd \in DOMAIN inbox \ AllSockets(streams) |-> inbox[fd]]
                    ELSE inbox
        /\ stun_server_ip' = IF step = "stun_server_ip" THEN NULL ELSE stun_server_ip
        /\ rng' = IF step = "rng" THEN NULL ELSE rng
  /\ sent' = <<>>
  /\ Reports("dispose", 0, <<>>)
  /\ UNCHANGED <<next_stream_id, full_mode, main_context_set, main_context, read_func,
                 read_func_data, attached, recv_call>>

(***************************************************************************)
(* The discovery engine's timer (discovery.c, specification section 4.2).  *)
(***************************************************************************)
InProgress(list) == \E i \in DOMAIN list : list[i].status = "pending"
Unsent(list) == \E i \in DOMAIN list : list[i].status = "unsent"

SetStatus(list, e, status) ==
  [j \in DOMAIN list |-> IF SameDiscovery(list[j], e)
                         THEN [list[j] EXCEPT !.status = status] ELSE list[j]]

\* what a tick leaves: when nothing is unsent or in progress any longer the
\* engine signals gathering-done and frees the list
DiscoveryStep(op, list, unsched, strs, ev) ==
  LET d == [discovery_list |-> list, unsched |-> unsched, timer |-> discovery_timer_id]
      over == ~Unsent(list) /\ ~InProgress(list) /\ unsched = 0
      e == IF over THEN discovery_free(d) ELSE d
  IN /\ discovery_list' = e.discovery_list
     /\ discovery_unsched_items' = e.unsched
     /\ discovery_timer_id' = e.timer
     /\ streams' = strs
     /\ Returns(op, 0, IF over THEN Append(ev, GatheringDone) ELSE ev)
     /\ NoTraffic
     /\ UNCHANGED <<local_addresses, next_stream_id, stun_server_ip, full_mode,
                    conncheck_list, conncheck_timer_id, keepalive_timer_id,
                    main_context_set, main_context, read_func, read_func_data, attached>>

\* a pacing tick sends the request of the first item not sent yet
DiscoveryTickSend ==
  /\ Idle
  /\ discovery_timer_id # 0
  /\ Unsent(discovery_list)
  /\ LET i == CHOOSE i \in DOMAIN discovery_list :
                 /\ discovery_list[i].status = "unsent"
                 /\ \A j \in 1..(i - 1) : discovery_list[j].status # "unsent"
     IN DiscoveryStep("discovery_tick_send",
                      SetStatus(discovery_list, discovery_list[i], "pending"),
                      Max(0, discovery_unsched_items - 1), streams, <<>>)

\* an item in progress ends: the server's answer gives a server-reflexive
\* candidate (mapped), or the last retransmission times out
DiscoveryTickResolve(i, mapped) ==
  /\ Idle
  /\ discovery_timer_id # 0
  /\ i \in DOMAIN discovery_list
  /\ discovery_list[i].status = "pending"
  /\ LET e == discovery_list[i]
         k == StreamByPtr(streams, e.stream)
         c == IF k = 0 THEN 0 ELSE stream_find_component_by_id(streams[k], e.component)
         cand == [type |-> "srflx", addr |-> local_addresses[e.interface], sockptr |-> 0]
         add == mapped /\ k # 0 /\ c # 0
     IN DiscoveryStep("discovery_tick_resolve",
                      SetStatus(discovery_list, e, "done"),
                      discovery_unsched_items,
                      IF add
                      THEN [streams EXCEPT ![k].components[c].local_candidates = Append(@, cand)]
                      ELSE streams,
                      IF add
                      THEN <<Event("new-candidate", streams[k].id, e.component)>>
                      ELSE <<>>)

(***************************************************************************)
(* Remote candidates.                                                      *)
(***************************************************************************)
\* a remote candidate made from descriptor desc; freed: nice_candidate_free
\* was called on it
RemoteCandidate(desc) == [desc |-> desc, freed |-> FALSE]

NoFault == [kind |-> "ok", at |-> 0]

\* what the callees of priv_add_remote_candidate can do: nice_candidate_new
\* or g_slist_append fail, or conn_check_add_for_candidate fails at its
\* at-th pair
RemoteFaults ==
  {NoFault, [kind |-> "cand_alloc_fail", at |-> 0], [kind |-> "list_append_fail", at |-> 0]}
    \cup {[kind |-> "pair_fail", at |-> j] : j \in 1..MaxAddrs}

\* variant that puts the new candidate in the place of the candidates held
\* (C9 must tell it from the code)
priv_add_remote_candidate_replacing(st, stream_id, component_id, desc, fault) ==
  LET f == agent_find_component(st.streams, stream_id, component_id)
  IN IF ~f.found \/ fault.kind # "ok" THEN [res |-> FALSE, st |-> st]
     ELSE IF f.c = 0 THEN [res |-> FALSE, st |-> [st EXCEPT !.crashed = TRUE]]
     ELSE LET strs == [st.streams EXCEPT ![f.s].components[f.c].remote_candidates =
                         <<RemoteCandidate(desc)>>]
              k == conn_check_add_for_candidate(st.conncheck_list, strs[f.s], f.c, 1, 0)
          IN [res |-> TRUE, st |-> [st EXCEPT !.streams = strs, !.conncheck_list = k.list]]

\* priv_add_remote_candidate. st = [streams, conncheck_list, crashed];
\* returns [res, st]
priv_add_remote_candidate(st, stream_id, component_id, desc, fault) ==
  LET f == agent_find_component(st.streams, stream_id, component_id)
  IN IF ~f.found THEN [res |-> FALSE, st |-> st]
     ELSE IF fault.kind = "cand_alloc_fail" THEN [res |-> FALSE, st |-> st]
     ELSE IF f.c = 0 THEN [res |-> FALSE, st |-> [st EXCEPT !.crashed = TRUE]]
     ELSE IF fault.kind = "list_append_fail" THEN [res |-> FALSE, st |-> st]
     ELSE
       LET n == Len(st.streams[f.s].components[f.c].remote_candidates) + 1
           strs == [st.streams EXCEPT ![f.s].components[f.c].remote_candidates =
                      Append(@, RemoteCandidate(desc))]
           k == conn_check_add_for_candidate(st.conncheck_list, strs[f.s], f.c, n,
                    IF fault.kind = "pair_fail" THEN fault.at ELSE 0)
       IN IF k.res < 0
          THEN [res |-> FALSE,
                st |-> [st EXCEPT
                   !.streams = [strs EXCEPT ![f.s].components[f.c].remote_candidates[n].freed = TRUE],
                   !.conncheck_list = k.list]]
          ELSE [res |-> TRUE,
                st |-> [st EXCEPT !.streams = strs, !.conncheck_list = k.list]]

\* the remote candidates held by the components of a stream
RECURSIVE NRemote(_, _)
NRemote(stream, c) ==
  IF c > Len(stream.components) THEN 0
  ELSE Len(stream.components[c].remote_candidates) + NRemote(stream, c + 1)

\* model bound: the stream of the component named, if any, has room for n
\* more remote candidates
HasRoom(stream_id, component_id, n) ==
  LET f == agent_find_component(streams, stream_id, component_id)
  IN f.found /\ f.c # 0 => NRemote(streams[f.s], 1) + n <= MaxRemote

\* nice_agent_add_remote_candidate
AddRemoteCandidate(stream_id, component_id, desc, fault) ==
  /\ Idle
  /\ HasRoom(stream_id, component_id, 1)
  /\ NoTraffic
  /\ LET r == priv_add_remote_candidate(
                 [streams |-> streams, conncheck_list |-> conncheck_list, crashed |-> FALSE],
                 stream_id, component_id, desc, fault)
     IN /\ IF r.st.crashed
           THEN /\ Crashes("add_remote_candidate")
                /\ UNCHANGED <<streams, conncheck_list>>
           ELSE /\ Returns("add_remote_candidate", IF r.res THEN 1 ELSE 0, <<>>)
                /\ streams' = r.st.streams
                /\ conncheck_list' = r.st.conncheck_list
        /\ UNCHANGED <<local_addresses, next_stream_id, stun_server_ip, full_mode,
                       discovery_list, discovery_unsched_items, discovery_timer_id,
                       conncheck_timer_id, keepalive_timer_id, main_context_set, main_context, read_func, read_func_data, attached>>

\* nice_agent_get_local_candidates: a copy of the component's list, the
\* empty list (NULL) when the stream is not found. A missing component of a
\* stream is a NULL pointer that the call reads through
GetLocalCandidates(stream_id, component_id) ==
  /\ Idle
  /\ NoTraffic
  /\ UNCHANGED agentVars
  /\ LET f == agent_find_component(streams, stream_id, component_id)
     IN IF ~f.found THEN Returns("get_local_candidates", <<>>, <<>>)
        ELSE IF f.c = 0 THEN Crashes("get_local_candidates")
        ELSE Returns("get_local_candidates",
                     streams[f.s].components[f.c].local_candidates, <<>>)

\* nice_agent_get_remote_candidates
GetRemoteCandidates(stream_id, component_id) ==
  /\ Idle
  /\ NoTraffic
  /\ UNCHANGED agentVars
  /\ LET f == agent_find_component(streams, stream_id, component_id)
     IN IF ~f.found THEN Returns("get_remote_candidates", <<>>, <<>>)
        ELSE IF f.c = 0 THEN Crashes("get_remote_candidates")
        ELSE Returns("get_remote_candidates",
                     streams[f.s].components[f.c].remote_candidates, <<>>)

\* variant of the loop that goes on after a failed addition (C10 must tell
\* it from the code)
RECURSIVE SetRemoteLoopOn(_, _, _, _, _, _, _)
SetRemoteLoopOn(lp, stream_id, component_id, candidates, i, fault_at, fault) ==
  IF i > Len(candidates) \/ lp.st.crashed THEN lp
  ELSE LET r == priv_add_remote_candidate(lp.st, stream_id, component_id, candidates[i],
                    IF i = fault_at THEN fault ELSE NoFault)
       IN SetRemoteLoopOn([st |-> r.st,
                           added |-> IF r.res /\ lp.added >= 0 THEN lp.added + 1 ELSE -1,
                           tried |-> lp.tried + 1],
                          stream_id, component_id, candidates, i + 1, fault_at, fault)

\* the loop of nice_agent_set_remote_candidates from the i-th descriptor on;
\* fault_at names the descriptor whose addition meets fault.
\* lp = [st, added, tried]
RECURSIVE SetRemoteLoop(_, _, _, _, _, _, _)
SetRemoteLoop(lp, stream_id, component_id, candidates, i, fault_at, fault) ==
  IF i > Len(candidates) \/ lp.added < 0 \/ lp.st.crashed THEN lp
  ELSE LET r == priv_add_remote_candidate(lp.st, stream_id, component_id, candidates[i],
                    IF i = fault_at THEN fault ELSE NoFault)
       IN SetRemoteLoop([st |-> r.st,
                         added |-> IF r.res THEN lp.added + 1 ELSE -1,
                         tried |-> lp.tried + 1],
                        stream_id, component_id, candidates, i + 1, fault_at, fault)

\* nice_agent_set_remote_candidates
SetRemoteCandidates(stream_id, component_id, candidates, fault_at, fault) ==
  /\ Idle
  /\ HasRoom(stream_id, component_id, Len(candidates))
  /\ NoTraffic
  /\ LET lp == SetRemoteLoop(
                  [st |-> [streams |-> streams, conncheck_list |-> conncheck_list,
                           crashed |-> FALSE],
                   added |-> 0, tried |-> 0],
                  stream_id, component_id, candidates, 1, fault_at, fault)
         k == [conncheck_list |-> lp.st.conncheck_list, timer |-> conncheck_timer_id]
     IN /\ IF lp.st.crashed
           THEN /\ Crashes("set_remote_candidates")
                /\ UNCHANGED <<streams, conncheck_list, conncheck_timer_id>>
           ELSE /\ Returns("set_remote_candidates", lp.added, <<>>)
                /\ streams' = lp.st.streams
                /\ conncheck_list' = lp.st.conncheck_list
                /\ conncheck_timer_id' = IF lp.added > 0
                                         THEN conn_check_schedule_next(k).timer
                                         ELSE conncheck_timer_id
        /\ UNCHANGED <<local_addresses, next_stream_id, stun_server_ip, full_mode,
                       discovery_list, discovery_unsched_items, discovery_timer_id,
                       keepalive_timer_id, main_context_set, main_context, read_func, read_func_data, attached>>

(***************************************************************************)
(* Sending media.                                                          *)
(***************************************************************************)
\* a guint returned as gint (nice_agent_send: guint len, "return len")
gint(n) == IF n >= 2 ^ (IntBits - 1) THEN n - 2 ^ IntBits ELSE n

\* nice_agent_send. The result of agent_find_component is not looked at: for
\* a missing stream component is an uninitialised pointer (ub: what reading
\* through it gives), for a missing component of a stream it is NULL
Send(stream_id, component_id, len, ub) ==
  /\ Idle
  /\ LET f == agent_find_component(streams, stream_id, component_id)
     IN IF ~f.found
        THEN /\ UNCHANGED agentVars
             /\ NoTraffic
             /\ IF ub = "crash" THEN Crashes("send")
                ELSE Returns("send", IF ub = "null" THEN -1 ELSE gint(len), <<>>)
        ELSE IF f.c = 0
        THEN /\ UNCHANGED agentVars
             /\ NoTraffic
             /\ Crashes("send")
        ELSE LET comp == streams[f.s].components[f.c]
             IN IF comp.selected_pair.local # 0
                THEN /\ sent' = <<[sock |-> comp.local_candidates[comp.selected_pair.local].sockptr,
                                   to |-> comp.remote_candidates[comp.selected_pair.remote].desc,
                                   len |-> len]>>
                     /\ UNCHANGED inbox
                     /\ streams' = [streams EXCEPT ![f.s].components[f.c].media_after_tick = TRUE]
                     /\ Returns("send", gint(len), <<>>)
                     /\ UNCHANGED <<local_addresses, next_stream_id, stun_server_ip, full_mode,
                                    discovery_list, discovery_unsched_items, discovery_timer_id,
                                    conncheck_list, conncheck_timer_id, keepalive_timer_id,
                                    main_context_set, main_context, read_func, read_func_data, attached>>
                ELSE /\ NoTraffic
                     /\ Returns("send", -1, <<>>)
                     /\ UNCHANGED agentVars

(***************************************************************************)
(* The check-list engine's timer (conncheck.c, specification 4.3).         *)
(***************************************************************************)
\* agent_signal_new_selected_pair: the signal is emitted when the stream is found
agent_signal_new_selected_pair(strs, stream_id, component_id) ==
  IF ~agent_find_component(strs, stream_id, component_id).found
  THEN <<>>
  ELSE <<Event("new-selected-pair", stream_id, component_id)>>

\* the check of pair p succeeds and p is nominated: it becomes the selected
\* pair of its component
ConnCheckTick(p) ==
  /\ Idle
  /\ conncheck_timer_id # 0
  /\ p \in conncheck_list
  /\ LET k == StreamByPtr(streams, p.owner)
         c == IF k = 0 THEN 0 ELSE stream_find_component_by_id(streams[k], p.component_id)
     IN /\ k # 0 /\ c # 0
        /\ streams[k].components[c].selected_pair # [local |-> p.local, remote |-> p.remote]
        /\ streams' = [streams EXCEPT ![k].components[c].selected_pair =
                                        [local |-> p.local, remote |-> p.remote]]
        /\ Returns("conn_check_tick", 0,
                   agent_signal_new_selected_pair(streams, p.stream_id, p.component_id))
        /\ NoTraffic
        /\ UNCHANGED <<local_addresses, next_stream_id, stun_server_ip, full_mode,
                       discovery_list, discovery_unsched_items, discovery_timer_id,
                       conncheck_list, conncheck_timer_id, keepalive_timer_id,
                       main_context_set, main_context, read_func, read_func_data, attached>>

\* the check-list engine starts the keepalive timer once a component of the
\* agent is ready (specification 4.3.9)
KeepaliveStart ==
  /\ Idle
  /\ keepalive_timer_id = 0
  /\ \E s \in DOMAIN streams : \E c \in DOMAIN streams[s].components :
       streams[s].components[c].state = "ready"
  /\ keepalive_timer_id' = 1
  /\ Returns("keepalive_start", 0, <<>>)
  /\ NoTraffic
  /\ UNCHANGED <<local_addresses, streams, next_stream_id, stun_server_ip, full_mode,
                 discovery_list, discovery_unsched_items, discovery_timer_id,
                 conncheck_list, conncheck_timer_id,
                 main_context_set, main_context, read_func, read_func_data, attached>>

(***************************************************************************)
(* Credentials.                                                            *)
(***************************************************************************)
\* a string argument: ptr is FALSE for the NULL pointer
NullString == [ptr |-> FALSE, str |-> <<>>]
String(str) == [ptr |-> TRUE, str |-> str]

\* nice_agent_set_remote_credentials
SetRemoteCredentials(stream_id, ufrag, pwd) ==
  /\ Idle
  /\ NoTraffic
  /\ LET s == agent_find_stream(streams, stream_id)
     IN IF s # 0 /\ ufrag.ptr /\ pwd.ptr
        THEN /\ streams' = [streams EXCEPT
                  ![s].remote_ufrag = g_strlcpy(@, ufrag.str, NICE_STREAM_MAX_UFRAG),
                  ![s].remote_password = g_strlcpy(@, pwd.str, NICE_STREAM_MAX_PWD)]
             /\ Returns("set_remote_credentials", 1, <<>>)
             /\ UNCHANGED <<local_addresses, next_stream_id, stun_server_ip, full_mode,
                            discovery_list, discovery_unsched_items, discovery_timer_id,
                            conncheck_list, conncheck_timer_id, keepalive_timer_id,
                            main_context_set, main_context, read_func, read_func_data,
                            attached>>
        ELSE Returns("set_remote_credentials", 0, <<>>) /\ UNCHANGED agentVars

\* what nice_agent_get_local_credentials hands out: res is the gboolean
\* returned, ufrag and pwd the strings *ufrag and *pwd point to
NoCredentials == [res |-> FALSE, ufrag |-> <<>>, pwd |-> <<>>]

\* variant that hands out the password for the ufrag and the ufrag for the
\* password
LocalCredentialsSwapped(stream) ==
  [res |-> TRUE, ufrag |-> CString(stream.local_password), pwd |-> CString(stream.local_ufrag)]

\* lines 893-896: *ufrag = stream->local_ufrag; *pwd = stream->local_password
LocalCredentials(stream) ==
  [res |-> TRUE, ufrag |-> CString(stream.local_ufrag), pwd |-> CString(stream.local_password)]

\* nice_agent_get_local_credentials. ufrag_out, pwd_out: the out parameters
\* ufrag and pwd are not NULL
GetLocalCredentials(stream_id, ufrag_out, pwd_out) ==
  /\ Idle
  /\ NoTraffic
  /\ UNCHANGED agentVars
  /\ LET s == agent_find_stream(streams, stream_id)
     IN IF s = 0
        THEN Returns("get_local_credentials", NoCredentials, <<>>)
        ELSE IF ~ufrag_out \/ ~pwd_out
        THEN Returns("get_local_credentials", NoCredentials, <<>>)
        ELSE Returns("get_local_credentials", LocalCredentials(streams[s]), <<>>)

(***************************************************************************)
(* Signals the engines ask the agent to emit.                              *)
(***************************************************************************)
\* NiceComponentState: the value n of the enumeration is the (n + 1)-th name
NiceComponentState ==
  <<"disconnected", "gathering", "connecting", "connected", "ready", "failed">>
NICE_COMPONENT_STATE_LAST == Len(NiceComponentState)

\* the value of NICE_COMPONENT_STATE_READY
StateReady == CHOOSE n \in 0..(NICE_COMPONENT_STATE_LAST - 1) : NiceComponentState[n + 1] = "ready"

\* the state arguments a caller can give: the values of the enumeration,
\* NICE_COMPONENT_STATE_LAST and a value beyond it
StateRequests == 0..(NICE_COMPONENT_STATE_LAST + 1)

StateChanged(stream_id, component_id, state) ==
  [sig |-> "component-state-changed", stream |-> stream_id, component |-> component_id,
   state |-> state]

\* variant that does not compare the state asked for with the current one
StateDiffersUntested(component, state) == state < NICE_COMPONENT_STATE_LAST

\* line 521: component->state != state && state < NICE_COMPONENT_STATE_LAST
StateDiffers(component, state) ==
  /\ state < NICE_COMPONENT_STATE_LAST
  /\ component.state # NiceComponentState[state + 1]

\* agent_signal_component_state_change, called by the discovery and the
\* check-list engine
SignalComponentStateChange(stream_id, component_id, state) ==
  /\ Idle
  /\ NoTraffic
  /\ LET f == agent_find_component(streams, stream_id, component_id)
     IN IF ~f.found
        THEN Returns("signal_component_state_change", 0, <<>>) /\ UNCHANGED agentVars
        ELSE IF f.c = 0
        THEN Crashes("signal_component_state_change") /\ UNCHANGED agentVars
        ELSE IF StateDiffers(streams[f.s].components[f.c], state)
        THEN /\ streams' = [streams EXCEPT ![f.s].components[f.c].state =
                                             NiceComponentState[state + 1]]
             /\ Returns("signal_component_state_change", 0,
                        <<StateChanged(stream_id, component_id, NiceComponentState[state + 1])>>)
             /\ UNCHANGED <<local_addresses, next_stream_id, stun_server_ip, full_mode,
                            discovery_list, discovery_unsched_items, discovery_timer_id,
                            conncheck_list, conncheck_timer_id, keepalive_timer_id,
                            main_context_set, main_context, read_func, read_func_data,
                            attached>>
        ELSE Returns("signal_component_state_change", 0, <<>>) /\ UNCHANGED agentVars

InitialBindingRequestReceived(stream_id) ==
  [sig |-> "initial-binding-request-received", stream |-> stream_id, component |-> 0]

\* variant that emits the signal on every notification
agent_signal_initial_binding_request_received_each(stream) ==
  [stream |-> [stream EXCEPT !.initial_binding_request_received = TRUE],
   events |-> <<InitialBindingRequestReceived(stream.id)>>]

\* agent_signal_initial_binding_request_received: [stream, events]
agent_signal_initial_binding_request_received(stream) ==
  IF stream.initial_binding_request_received # TRUE
  THEN [stream |-> [stream EXCEPT !.initial_binding_request_received = TRUE],
        events |-> <<InitialBindingRequestReceived(stream.id)>>]
  ELSE [stream |-> stream, events |-> <<>>]

\* the check-list engine notifies the agent of a binding request received
\* for the stream at position k
SignalInitialBindingRequestReceived(k) ==
  /\ Idle
  /\ NoTraffic
  /\ k \in DOMAIN streams
  /\ LET r == agent_signal_initial_binding_request_received(streams[k])
     IN /\ streams' = [streams EXCEPT ![k] = r.stream]
        /\ Returns("signal_initial_binding_request_received", 0, r.events)
  /\ UNCHANGED <<local_addresses, next_stream_id, stun_server_ip, full_mode,
                 discovery_list, discovery_unsched_items, discovery_timer_id,
                 conncheck_list, conncheck_timer_id, keepalive_timer_id,
                 main_context_set, main_context, read_func, read_func_data, attached>>

(***************************************************************************)
(* Receiving: the inbound dispatcher and its callers.                      *)
(*                                                                         *)
(* A datagram is [len, b0, stun]: len is what nice_udp_socket_recv returns *)
(* for it, b0 its first byte and stun whether stun_validate gives a        *)
(* positive length for it.                                                 *)
(***************************************************************************)
G_MAXUINT == 2 ^ IntBits - 1

\* a datagram arrives on socket fd of the agent
Arrive(fd, dgram) ==
  /\ ~crashed
  /\ fd \in AllSockets(streams)
  /\ Cardinality(DOMAIN inbox) < MaxPending
  /\ fd \notin DOMAIN inbox
  /\ inbox' = [x \in DOMAIN inbox \cup {fd} |-> IF x = fd THEN dgram ELSE inbox[x]]
  /\ sent' = <<>>
  /\ Returns("arrive", 0, <<>>)
  /\ UNCHANGED agentVars

\* nice_udp_socket_recv on socket fd: the datagram waiting, or an error (-1,
\* the largest guint) when nothing waits on the non-blocking socket
nice_udp_socket_recv(box, fd) ==
  IF fd \in DOMAIN box THEN box[fd] ELSE [len |-> G_MAXUINT, b0 |-> 0, stun |-> FALSE]

\* what nice_udp_socket_recv leaves waiting
Taken(box, fd) == [x \in DOMAIN box \ {fd} |-> box[x]]

\* (buf[0] & 0xc0) == 0x80
LooksLikeRtp(b0) == (b0 \div 64) % 4 = 2

\* the call of conn_check_handle_inbound_stun, as an observable event
InboundStun(stream, component_id, fd, dgram) ==
  [sig |-> "inbound-stun", stream |-> stream.id, component |-> component_id,
   sock |-> fd, buf |-> dgram]

\* the call of a receive callback, as an observable event
ReadFunc(func, stream, component_id, fd, len, dgram) ==
  [sig |-> "read-func", func |-> func, stream |-> stream.id, component |-> component_id,
   sock |-> fd, len |-> len, buf |-> dgram]

\* variant that hands a STUN message to the engine and to the caller as well
\* (C4 must tell it from the code)
nice_agent_recv_both(box, stream, component_id, fd, buf_len) ==
  LET dgram == nice_udp_socket_recv(box, fd)
  IN IF dgram.len = 0 \/ dgram.len > buf_len THEN [ret |-> 0, events |-> <<>>]
     ELSE IF ~LooksLikeRtp(dgram.b0) /\ dgram.stun
     THEN [ret |-> dgram.len, events |-> <<InboundStun(stream, component_id, fd, dgram)>>]
     ELSE [ret |-> dgram.len, events |-> <<>>]

\* _nice_agent_recv on the socket fd of (stream, component): [ret, events]
nice_agent_recv_(box, stream, component_id, fd, buf_len) ==
  LET dgram == nice_udp_socket_recv(box, fd)
  IN IF dgram.len = 0 THEN [ret |-> 0, events |-> <<>>]
     ELSE IF dgram.len > buf_len THEN [ret |-> 0, events |-> <<>>]
     ELSE IF LooksLikeRtp(dgram.b0) THEN [ret |-> dgram.len, events |-> <<>>]
     ELSE IF dgram.stun
     THEN [ret |-> 0, events |-> <<InboundStun(stream, component_id, fd, dgram)>>]
     ELSE [ret |-> dgram.len, events |-> <<>>]

\* a receiving call read the sockets in fds, returned r and made the calls
\* ev on the engine and the callbacks
Received(op, fds, r, ev) ==
  /\ Returns(op, r, ev)
  /\ inbox' = [x \in DOMAIN inbox \ fds |-> inbox[x]]
  /\ sent' = <<>>
  /\ UNCHANGED agentVars

\* nice_agent_g_source_cb for the attached source src, whose socket is readable
G_source_cb(src) ==
  /\ Idle
  /\ src \in attached
  /\ src.fd \in DOMAIN inbox
  /\ LET k == StreamByPtr(streams, src.stream)
         r == nice_agent_recv_(inbox, streams[k], src.component, src.fd,
                               MAX_STUN_DATAGRAM_PAYLOAD)
     IN /\ k # 0
        /\ IF r.ret > 0
           THEN IF read_func = NULL
                THEN /\ Crashes("g_source_cb")
                     /\ inbox' = Taken(inbox, src.fd)
                     /\ sent' = <<>>
                     /\ UNCHANGED agentVars
                ELSE Received("g_source_cb", {src.fd}, 1,
                              Append(r.events,
                                     ReadFunc(read_func, streams[k], src.component, src.fd,
                                              r.ret, nice_udp_socket_recv(inbox, src.fd))))
           ELSE Received("g_source_cb", {src.fd}, 1, r.events)

\* component_find_udp_socket_by_fd: fd when the component holds the socket,
\* 0 for NULL
component_find_udp_socket_by_fd(stream, c, fd) ==
  IF c # 0 /\ fd \in Range(stream.components[c].sockets) THEN fd ELSE 0

\* nice_agent_recv_sock
RecvSock(stream_id, component_id, sock, buf_len) ==
  /\ Idle
  /\ LET f == agent_find_component(streams, stream_id, component_id)
     IN IF ~f.found
        THEN Received("recv_sock", {}, 0, <<>>)
        ELSE IF component_find_udp_socket_by_fd(streams[f.s], f.c, sock) = 0
        THEN Crashes("recv_sock") /\ NoTraffic /\ UNCHANGED agentVars
        ELSE LET r == nice_agent_recv_(inbox, streams[f.s], component_id, sock, buf_len)
             IN Received("recv_sock", {sock}, r.ret, r.events)

\* nice_agent_recv stays in its loop: call is what the next select is given
Blocks(op, call, ev) ==
  /\ lastOp' = op
  /\ events' = ev
  /\ recv_call' = call
  /\ crashed' = FALSE
  /\ UNCHANGED <<ret, gathering_done_seen, signalled, rng, dispose_pc>>

\* nice_agent_recv up to its select: the descriptor set fds is filled with
\* the sockets of the component, once, before the loop
Recv(stream_id, component_id, buf_len) ==
  /\ Idle
  /\ LET f == agent_find_component(streams, stream_id, component_id)
     IN IF ~f.found
        THEN Received("recv", {}, 0, <<>>)
        ELSE IF f.c = 0
        THEN Crashes("recv") /\ NoTraffic /\ UNCHANGED agentVars
        ELSE /\ Blocks("recv_select",
                       [stream |-> streams[f.s].ptr, component |-> component_id,
                        fds |-> Range(streams[f.s].components[f.c].sockets),
                        buf_len |-> buf_len],
                       <<>>)
             /\ NoTraffic
             /\ UNCHANGED agentVars

\* the loop of nice_agent_recv over the descriptors that select left in fds,
\* in ascending order: it ends at the first datagram _nice_agent_recv gives
\* a length for. rs = [ret, events, read]
RECURSIVE RecvLoop(_, _, _, _)
RecvLoop(rs, stream, call, todo) ==
  IF todo = {} THEN rs
  ELSE LET j == CHOOSE x \in todo : \A y \in todo : x <= y
           r == nice_agent_recv_(inbox, stream, call.component, j, call.buf_len)
           nrs == [ret |-> r.ret, events |-> rs.events \o r.events, read |-> rs.read \cup {j}]
       IN IF r.ret > 0 THEN nrs ELSE RecvLoop(nrs, stream, call, todo \ {j})

\* what the descriptor set holds when the loop of nice_agent_recv comes back
\* to select: select has overwritten fds with the descriptors that were
\* readable, and the loop does not fill it again
fds_after_select(fds, readable) == readable

\* select returns in the blocked nice_agent_recv: a datagram waits on a
\* socket of fds
RecvSelect ==
  /\ ~crashed
  /\ recv_call # NoRecv
  /\ LET readable == recv_call.fds \cap DOMAIN inbox
         k == StreamByPtr(streams, recv_call.stream)
         rs == RecvLoop([ret |-> 0, events |-> <<>>, read |-> {}], streams[k], recv_call, readable)
     IN /\ readable # {}
        /\ k # 0
        /\ inbox' = [x \in DOMAIN inbox \ rs.read |-> inbox[x]]
        /\ sent' = <<>>
        /\ UNCHANGED agentVars
        /\ IF rs.ret > 0
           THEN /\ Reports("recv", rs.ret, rs.events)
                /\ recv_call' = NoRecv
                /\ UNCHANGED <<rng, dispose_pc>>
           ELSE Blocks("recv_select",
                       [recv_call EXCEPT !.fds = fds_after_select(@, readable)], rs.events)

\* stream_find_component_by_fd: the position of the component of stream that
\* holds socket fd, 0 for NULL
stream_find_component_by_fd(stream, fd) ==
  IF \E c \in DOMAIN stream.components : fd \in Range(stream.components[c].sockets)
  THEN CHOOSE c \in DOMAIN stream.components : fd \in Range(stream.components[c].sockets)
  ELSE 0

\* nice_agent_poll_read: the search for the stream and component of socket
\* fd, [s, c] (0, 0 when no stream holds it)
FindBySocket(strs, fd) ==
  LET Holds(k) == component_find_udp_socket_by_fd(
                    strs[k], stream_find_component_by_fd(strs[k], fd), fd) # 0
  IN IF \E k \in DOMAIN strs : Holds(k)
     THEN LET k == CHOOSE k \in DOMAIN strs : Holds(k) /\ \A h \in 1..(k - 1) : ~Holds(h)
          IN [s |-> k, c |-> stream_find_component_by_fd(strs[k], fd)]
     ELSE [s |-> 0, c |-> 0]

\* variant that takes every descriptor for a member of the list
g_slist_find_any(list, data) == TRUE

\* g_slist_find (other_fds, GUINT_TO_POINTER (j)): j is a member of other_fds
g_slist_find(list, data) == data \in list

\* the loop of nice_agent_poll_read over the descriptors j..max_fd.
\* pr = [ret, events, read, failed]; lost: the descriptor of other_fds that
\* g_slist_append cannot add to the result (0: none)
RECURSIVE PollLoop(_, _, _, _, _, _, _)
PollLoop(pr, j, max_fd, readable, other_fds, func, lost) ==
  IF j > max_fd THEN pr
  ELSE IF j \notin readable
  THEN PollLoop(pr, j + 1, max_fd, readable, other_fds, func, lost)
  ELSE IF g_slist_find(other_fds, j)
  THEN IF j = lost
       THEN [pr EXCEPT !.ret = <<>>, !.failed = TRUE]
       ELSE PollLoop([pr EXCEPT !.ret = Append(@, j)], j + 1, max_fd, readable,
                     other_fds, func, lost)
  ELSE LET f == FindBySocket(streams, j)
       IN IF f.s = 0 \/ f.c = 0 THEN pr
          ELSE LET stream == streams[f.s]
                   cid == stream.components[f.c].id
                   r == nice_agent_recv_(inbox, stream, cid, j, MAX_STUN_DATAGRAM_PAYLOAD)
                   ev == IF r.ret # 0 /\ func # NULL
                         THEN Append(r.events,
                                     ReadFunc(func, stream, cid, j, r.ret,
                                              nice_udp_socket_recv(inbox, j)))
                         ELSE r.events
               IN PollLoop([pr EXCEPT !.events = @ \o ev, !.read = @ \cup {j}],
                           j + 1, max_fd, readable, other_fds, func, lost)

\* nice_agent_poll_read. select reports the agent's sockets on which a
\* datagram waits and other_ready, the members of other_fds that are readable
PollRead(other_fds, other_ready, func, lost) ==
  /\ Idle
  /\ other_ready \subseteq other_fds
  /\ LET fds == AllSockets(streams) \cup other_fds
         readable == DOMAIN inbox \cup other_ready
     IN IF readable = {}
        THEN Received("poll_read", {}, <<>>, <<>>)
        ELSE LET max_fd == CHOOSE m \in fds : \A x \in fds : x <= m
                 pr == PollLoop([ret |-> <<>>, events |-> <<>>, read |-> {}, failed |-> FALSE],
                                0, max_fd, readable, other_fds, func, lost)
             IN Received("poll_read", pr.read, pr.ret, pr.events)

(***************************************************************************)
(* Specification of the stream life cycle and candidate gathering.         *)
(***************************************************************************)
\* add_stream with every outcome of its callees
AnyAddStream ==
  \E n \in 1..MaxComponents, ok \in BOOLEAN :
    \E plan \in Plans(n), af \in 0..(MaxAddrs * MaxComponents) :
      /\ af <= (IF main_context_set THEN Len(local_addresses) * n ELSE 0)
      /\ AddStream(n, ok, plan, af, RngOutput)

Next ==
  \/ \E addr \in Addrs, ok \in BOOLEAN : AddLocalAddress(addr, ok)
  \/ AnyAddStream
  \/ \E id \in 0..MaxStreams : RemoveStream(id)
  \/ \E cl \in Callers, f \in AttachFaults : MainContextAttach(cl.ctx, cl.func, cl.data, f)

Spec == Init /\ [][Next]_vars

(***************************************************************************)
(* Specification of candidate gathering with a STUN server, on an agent    *)
(* with one local address.                                                 *)
(***************************************************************************)
NextGather ==
  \/ \E ip \in {NULL, "stun"} : SetStunServer(ip)
  \/ \E addr \in Addrs, ok \in BOOLEAN :
       local_addresses = <<>> /\ AddLocalAddress(addr, ok)
  \/ AnyAddStream
  \/ \E id \in 0..MaxStreams : RemoveStream(id)
  \/ DiscoveryTickSend
  \/ \E i \in 1..(2 * MaxAddrs * MaxComponents * MaxStreams), mapped \in BOOLEAN :
       DiscoveryTickResolve(i, mapped)

SpecGather == Init /\ [][NextGather]_vars

(***************************************************************************)
(* Specification of remote candidates, pairs and media, on an agent with   *)
(* one local address that holds one stream at a time.                      *)
(***************************************************************************)
RemoteLists == UNION {[1..n -> Descs] : n \in 0..MaxRemote}

StreamIds == 0..MaxStreams
ComponentIds == 1..(MaxComponents + 1)
PayloadLens == {0, 2, 2 ^ (IntBits - 1)}

\* what reading through the uninitialised component pointer of send can give
Garbage == {"crash", "null", "garbage"}

InitCand == Init /\ full_mode

NextCand ==
  \/ \E addr \in Addrs : local_addresses = <<>> /\ AddLocalAddress(addr, TRUE)
  \/ \E n \in 1..MaxComponents :
       \E plan \in Plans(n) : streams = <<>> /\ AddStream(n, TRUE, plan, 0, RngOutput)
  \/ \E id \in StreamIds : RemoveStream(id)
  \/ \E s \in StreamIds, c \in ComponentIds, d \in Descs, f \in RemoteFaults :
       AddRemoteCandidate(s, c, d, f)
  \/ \E s \in StreamIds, c \in ComponentIds, l \in RemoteLists, f \in RemoteFaults :
       \E at \in 0..Len(l) :
         /\ (at = 0) = (f = NoFault)
         /\ SetRemoteCandidates(s, c, l, at, f)
  \/ \E p \in conncheck_list : ConnCheckTick(p)
  \/ \E s \in StreamIds, c \in ComponentIds, len \in PayloadLens, ub \in Garbage :
       /\ agent_find_component(streams, s, c).found => ub = "crash"
       /\ Send(s, c, len, ub)

SpecCand == InitCand /\ [][NextCand]_vars

(***************************************************************************)
(* Specification of whole sessions without callee failures: streams of one *)
(* component gather with a STUN server, get sources and remote candidates, *)
(* are checked and removed.                                                *)
(***************************************************************************)
NextSession ==
  \/ stun_server_ip = NULL /\ SetStunServer("stun")
  \/ \E addr \in Addrs : local_addresses = <<>> /\ AddLocalAddress(addr, TRUE)
  \/ AddStream(1, TRUE, [p \in Positions(1) |-> "ok"], 0, RngOutput)
  \/ MainContextAttach("ctx", "func", "data", <<0, 0>>)
  \/ \E id \in StreamIds : RemoveStream(id)
  \/ DiscoveryTickSend
  \/ \E i \in 1..(2 * MaxAddrs * MaxComponents * MaxStreams), mapped \in BOOLEAN :
       DiscoveryTickResolve(i, mapped)
  \/ \E s \in StreamIds, c \in ComponentIds :
       SetRemoteCandidates(s, c, <<"d1">>, 0, NoFault)
  \/ \E p \in conncheck_list : ConnCheckTick(p)

SpecSession == InitCand /\ [][NextSession]_vars

(***************************************************************************)
(* Specification of receiving: streams of one component on one local       *)
(* address, their sources, and datagrams arriving on their sockets.        *)
(***************************************************************************)
Lens == (0..(MAX_STUN_DATAGRAM_PAYLOAD + 1)) \cup {G_MAXUINT}
FirstBytes == {0, 127, 128, 191, 192}
Datagrams == [len : Lens, b0 : FirstBytes, stun : BOOLEAN]

\* a descriptor that is never one of the agent's sockets
OtherFd == MaxAddrs * MaxComponents * MaxStreams + 2
OtherFdSets == {{}, {OtherFd}, {1, OtherFd}}

NextRecv ==
  \/ \E addr \in Addrs : local_addresses = <<>> /\ AddLocalAddress(addr, TRUE)
  \/ AddStream(1, TRUE, [p \in Positions(1) |-> "ok"], 0, RngOutput)
  \/ \E id \in StreamIds : RemoveStream(id)
  \/ \E func \in Funcs : MainContextAttach("ctx", func, "data", <<0, 0>>)
  \/ \E fd \in AllSockets(streams), dgram \in Datagrams : Arrive(fd, dgram)
  \/ \E src \in attached : G_source_cb(src)
  \/ \E s \in StreamIds, c \in ComponentIds, sock \in AllSockets(streams) :
       \E buf_len \in {1, MAX_STUN_DATAGRAM_PAYLOAD} : RecvSock(s, c, sock, buf_len)
  \/ \E other_fds \in OtherFdSets, func \in Funcs :
       \E other_ready \in SUBSET other_fds, lost \in {0} \cup other_fds :
         PollRead(other_fds, other_ready, func, lost)

SpecRecv == InitCand /\ [][NextRecv]_vars

(***************************************************************************)
(* Specification of the blocking recv: an agent with up to MaxAddrs local  *)
(* addresses and one stream of one component, datagrams arriving on its    *)
(* sockets while a caller is inside nice_agent_recv. select returns when   *)
(* a descriptor of its set is readable, hence the fairness condition.      *)
(***************************************************************************)
RecvDatagrams == {d \in Datagrams : d.len \in 1..MAX_STUN_DATAGRAM_PAYLOAD}

NextBlocking ==
  \/ \E addr \in Addrs : AddLocalAddress(addr, TRUE)
  \/ next_stream_id = 1 /\ AddStream(1, TRUE, [p \in Positions(1) |-> "ok"], 0, RngOutput)
  \/ \E fd \in AllSockets(streams), dgram \in RecvDatagrams : Arrive(fd, dgram)
  \/ \E s \in StreamIds, c \in ComponentIds, buf_len \in {1, MAX_STUN_DATAGRAM_PAYLOAD} :
       Recv(s, c, buf_len)
  \/ RecvSelect

SpecBlocking == InitCand /\ [][NextBlocking]_vars /\ WF_vars(RecvSelect)

(***************************************************************************)
(* Specification of the signals asked for by the engines, on an agent with *)
(* one local address that holds one stream at a time.                      *)
(***************************************************************************)
\* the states asked for: disconnected, connecting, ready and the first
\* value that is no state
SignalStates == {s \in StateRequests : s % 2 = 0}

NextSignals ==
  \/ \E addr \in Addrs : local_addresses = <<>> /\ AddLocalAddress(addr, TRUE)
  \/ \E n \in 1..MaxComponents :
       streams = <<>> /\ AddStream(n, TRUE, [p \in Positions(n) |-> "ok"], 0, RngOutput)
  \/ \E id \in StreamIds : RemoveStream(id)
  \/ \E s \in StreamIds, c \in ComponentIds, state \in SignalStates :
       SignalComponentStateChange(s, c, state)
  \/ \E k \in 1..MaxStreams : SignalInitialBindingRequestReceived(k)

SpecSignals == InitCand /\ [][NextSignals]_vars

(***************************************************************************)
(* Specification of the local credentials: streams of one component get    *)
(* every output of the random generator, and remote credentials are set in *)
(* between.                                                                *)
(***************************************************************************)
NextLocalCred ==
  \/ \E addr \in Addrs : local_addresses = <<>> /\ AddLocalAddress(addr, TRUE)
  \/ \E rnd \in RngOutputs : AddStream(1, TRUE, [p \in Positions(1) |-> "ok"], 0, rnd)
  \/ \E id \in StreamIds : RemoveStream(id)
  \/ \E s \in StreamIds, ufrag_out \in BOOLEAN, pwd_out \in BOOLEAN :
       GetLocalCredentials(s, ufrag_out, pwd_out)
  \/ \E s \in StreamIds : SetRemoteCredentials(s, String(<<"b">>), String(<<"b", "a">>))

SpecLocalCred == InitCand /\ [][NextLocalCred]_vars

(***************************************************************************)
(* Specification of the remote credentials, on an agent with one local     *)
(* address that holds one stream at a time.                                *)
(***************************************************************************)
\* the strings a caller gives: the empty string, strings that fill a buffer
\* or exceed it by one character, and a string of one character
Strings ==
  {[i \in 1..n |-> IF i % 2 = 1 THEN "a" ELSE "b"] :
     n \in {0, NICE_STREAM_MAX_UFRAG - 1, NICE_STREAM_MAX_UFRAG,
            NICE_STREAM_MAX_PWD - 1, NICE_STREAM_MAX_PWD}}
    \cup {<<"b">>}
StringArgs == {NullString} \cup {String(str) : str \in Strings}

NextRemoteCred ==
  \/ \E addr \in Addrs : local_addresses = <<>> /\ AddLocalAddress(addr, TRUE)
  \/ streams = <<>> /\ AddStream(1, TRUE, [p \in Positions(1) |-> "ok"], 0, RngOutput)
  \/ \E id \in StreamIds : RemoveStream(id)
  \/ \E s \in StreamIds, ufrag \in StringArgs, pwd \in StringArgs :
       SetRemoteCredentials(s, ufrag, pwd)

SpecRemoteCred == InitCand /\ [][NextRemoteCred]_vars

(***************************************************************************)
(* Specification of the teardown: streams of one component gather with a   *)
(* STUN server, get sources, remote candidates and a keepalive timer, are   *)
(* removed, and the agent is disposed of.                                  *)
(***************************************************************************)
NextTeardown ==
  \/ stun_server_ip = NULL /\ SetStunServer("stun")
  \/ \E addr \in Addrs : local_addresses = <<>> /\ AddLocalAddress(addr, TRUE)
  \/ AddStream(1, TRUE, [p \in Positions(1) |-> "ok"], 0, RngOutput)
  \/ MainContextAttach("ctx", "func", "data", <<0, 0>>)
  \/ \E id \in StreamIds : RemoveStream(id)
  \/ \E s \in 1..MaxStreams : SetRemoteCandidates(s, 1, <<"d1">>, 0, NoFault)
  \/ \E s \in 1..MaxStreams : SignalComponentStateChange(s, 1, StateReady)
  \/ KeepaliveStart
  \/ Dispose

SpecTeardown == InitCand /\ [][NextTeardown]_vars

(***************************************************************************)
(* an agent with one local address that holds one stream of one component  *)
(* at a time.                                                              *)
(***************************************************************************)
NextAddressed ==
  \/ \E addr \in Addrs : local_addresses = <<>> /\ AddLocalAddress(addr, TRUE)
  \/ streams = <<>> /\ AddStream(1, TRUE, [p \in Positions(1) |-> "ok"], 0, RngOutput)
  \/ \E id \in StreamIds : RemoveStream(id)
  \/ \E s \in StreamIds, c \in ComponentIds : AddRemoteCandidate(s, c, "d1", NoFault)
  \/ \E s \in StreamIds, c \in ComponentIds : SetRemoteCandidates(s, c, <<"d1">>, 0, NoFault)
  \/ \E s \in StreamIds, c \in ComponentIds : GetLocalCandidates(s, c)
  \/ \E s \in StreamIds, c \in ComponentIds : GetRemoteCandidates(s, c)
  \/ \E s \in StreamIds, c \in ComponentIds : Recv(s, c, MAX_STUN_DATAGRAM_PAYLOAD)
  \/ \E s \in StreamIds, c \in ComponentIds, sock \in 1..MaxComponents :
       RecvSock(s, c, sock, MAX_STUN_DATAGRAM_PAYLOAD)
  \/ \E s \in StreamIds, c \in ComponentIds, ub \in Garbage :
       /\ agent_find_component(streams, s, c).found => ub = "crash"
       /\ Send(s, c, MAX_STUN_DATAGRAM_PAYLOAD, ub)
  \/ \E s \in StreamIds, c \in ComponentIds :
       SignalComponentStateChange(s, c, StateReady)

SpecAddressed == InitCand /\ [][NextAddressed]_vars

(***************************************************************************)
(* Specification of outgoing media: one stream at a time on one local      *)
(* address, whose components get a remote candidate and a selected pair,   *)
(* and payloads up to the largest guint.                                   *)
(***************************************************************************)
NextMedia ==
  \/ \E addr \in Addrs : local_addresses = <<>> /\ AddLocalAddress(addr, TRUE)
  \/ \E n \in 1..MaxComponents :
       streams = <<>> /\ AddStream(n, TRUE, [p \in Positions(n) |-> "ok"], 0, RngOutput)
  \/ \E id \in StreamIds : RemoveStream(id)
  \/ \E s \in 1..MaxStreams, c \in 1..MaxComponents :
       SetRemoteCandidates(s, c, <<"d1">>, 0, NoFault)
  \/ \E p \in conncheck_list : ConnCheckTick(p)
  \/ \E s \in StreamIds, c \in 1..MaxComponents, len \in Lens, ub \in Garbage :
       /\ Names(s, c) \/ ~agent_find_component(streams, s, c).found
       /\ agent_find_component(streams, s, c).found => ub = "crash"
       /\ Send(s, c, len, ub)

SpecMedia == InitCand /\ [][NextMedia]_vars

(***************************************************************************)
(* Specification of set_remote_candidates with every outcome of its        *)
(* callees, on an agent with one local address that gets one stream.       *)
(***************************************************************************)
\* the inputs of set_remote_candidates: the list, the addition that meets a
\* callee failure (0: none) and the failure
SetRemoteInputs ==
  {in \in [l : {<<>>, <<"d1">>, <<"d1", "d2">>}, at : 0..MaxRemote, f : RemoteFaults] :
     in.at <= Len(in.l) /\ ((in.at = 0) = (in.f = NoFault))}

NextSetRemote ==
  \/ \E addr \in Addrs : local_addresses = <<>> /\ AddLocalAddress(addr, TRUE)
  \/ \E n \in 1..MaxComponents :
       next_stream_id = 1 /\ AddStream(n, TRUE, [p \in Positions(n) |-> "ok"], 0, RngOutput)
  \/ \E id \in 1..2 : RemoveStream(id)
  \/ \E s \in 1..2, c \in ComponentIds, in \in SetRemoteInputs :
       SetRemoteCandidates(s, c, in.l, in.at, in.f)

SpecSetRemote == InitCand /\ [][NextSetRemote]_vars

(***************************************************************************)
(* Properties of the stream life cycle.                                    *)
(***************************************************************************)
\* C1: an add_stream call on an agent that has no local address returns 0
\* and changes nothing: no stream is created, no stream id is consumed, no
\* discovery is started and no signal is emitted.
C1_AddStreamWithoutAddress ==
  [][(lastOp' = "add_stream" /\ local_addresses = <<>>)
       => (ret' = 0 /\ events' = <<>> /\ ~crashed' /\ UNCHANGED agentVars)]_vars

\* an add_stream call was made on an agent without local address
C1_Witness ==
  /\ lastOp = "add_stream"
  /\ local_addresses = <<>>
  /\ ret = 0
  /\ streams = <<>>
  /\ next_stream_id = 1

\* C2: the streams an agent holds have pairwise distinct ids.
C2_DistinctStreamIds ==
  \A i, j \in DOMAIN streams : i # j => streams[i].id # streams[j].id

(***************************************************************************)
(* Properties of sending.                                                  *)
(***************************************************************************)
\* C3: a send(s, c, len) call on an existing component returns -1, transmits
\* nothing and changes no state when the component has no selected pair;
\* otherwise it transmits the payload on the local socket of the selected
\* pair to the remote address of the selected pair and returns len.
C3_Send ==
  [][\A s \in StreamIds, c \in ComponentIds, len \in PayloadLens :
       LET f == agent_find_component(streams, s, c)
       IN (f.found /\ f.c # 0 /\ Send(s, c, len, "crash")) =>
            LET comp == streams[f.s].components[f.c]
                pair == comp.selected_pair
            IN IF pair.local = 0
               THEN ret' = -1 /\ sent' = <<>> /\ UNCHANGED agentVars
               ELSE /\ ret' = len
                    /\ sent' = <<[sock |-> comp.local_candidates[pair.local].sockptr,
                                  to |-> comp.remote_candidates[pair.remote].desc,
                                  len |-> len]>>]_vars

(***************************************************************************)
(* Properties of the inbound dispatcher.                                   *)
(***************************************************************************)
\* the number of calls with signal sig made for the datagram read on socket fd
Calls(ev, sig, fd) == Cardinality({i \in DOMAIN ev : ev[i].sig = sig /\ ev[i].sock = fd})

\* the two cases of a datagram of length 0 < len <= buf_len: media (top two
\* bits of the first byte 10, or not valid STUN), and STUN for the engine
IsMedia(d, buf_len) ==
  0 < d.len /\ d.len <= buf_len /\ (d.b0 \in 128..191 \/ ~d.stun)
IsForEngine(d, buf_len) ==
  0 < d.len /\ d.len <= buf_len /\ d.b0 \notin 128..191 /\ d.stun

\* what C4 says of the datagram d read on socket fd, for the calls ev made
Dispatched(d, buf_len, fd, ev) ==
  /\ Calls(ev, "read-func", fd) = (IF IsMedia(d, buf_len) THEN 1 ELSE 0)
  /\ Calls(ev, "inbound-stun", fd) = (IF IsForEngine(d, buf_len) THEN 1 ELSE 0)

\* C4: of a datagram of length 0 < len <= buf_len the dispatcher either
\* returns the length without calling the check engine (top two bits of the
\* first byte 10, or not valid STUN), or hands it to the check engine exactly
\* once and returns 0; the receive callback of the main context and of
\* poll_read is called for a datagram exactly when it was not fed to the
\* engine; a datagram of length 0 or longer than the buffer is neither
\* delivered nor fed.
C4_Dispatch ==
  [][/\ (lastOp' = "recv_sock" /\ ~crashed') =>
          \A s \in StreamIds, c \in ComponentIds, sock \in DOMAIN inbox,
             buf_len \in {1, MAX_STUN_DATAGRAM_PAYLOAD} :
            (agent_find_component(streams, s, c).found /\ RecvSock(s, c, sock, buf_len))
              => /\ ret' = (IF IsMedia(inbox[sock], buf_len) THEN inbox[sock].len ELSE 0)
                 /\ Calls(events', "inbound-stun", sock)
                      = (IF IsForEngine(inbox[sock], buf_len) THEN 1 ELSE 0)
                 /\ Len(events') = Calls(events', "inbound-stun", sock)
     /\ (lastOp' = "g_source_cb" /\ ~crashed') =>
          \A src \in attached :
            G_source_cb(src)
              => /\ Dispatched(inbox[src.fd], MAX_STUN_DATAGRAM_PAYLOAD, src.fd, events')
                 /\ Len(events') <= 1
     /\ (lastOp' = "poll_read" /\ ~crashed') =>
          \A other_fds \in OtherFdSets :
            \A other_ready \in SUBSET other_fds, lost \in {0} \cup other_fds :
              PollRead(other_fds, other_ready, "func", lost)
                => \A fd \in AllSockets(streams) \ other_fds :
                     IF fd \in DOMAIN inbox /\ (lost \in DOMAIN inbox \cup other_ready => fd < lost)
                     THEN Dispatched(inbox[fd], MAX_STUN_DATAGRAM_PAYLOAD, fd, events')
                     ELSE Calls(events', "read-func", fd) = 0
                          /\ Calls(events', "inbound-stun", fd) = 0]_vars

\* a media datagram was delivered to the callback, or a STUN datagram fed to
\* the check engine, by the main-context callback
C4_Witness ==
  /\ lastOp = "g_source_cb"
  /\ ~crashed
  /\ Len(events) = 1
  /\ events[1].sig = "inbound-stun"
  /\ events[1].buf.len = MAX_STUN_DATAGRAM_PAYLOAD

(***************************************************************************)
(* Properties of candidate gathering.                                      *)
(***************************************************************************)
\* C5: candidate-gathering-done is emitted only in a state where
\* discovery_unsched_items is 0 and no discovery is in progress, whether a
\* discovery tick or add_stream emits it.
C5_GatheringDoneWhenIdle ==
  Emits(events, "candidate-gathering-done")
    => discovery_unsched_items = 0 /\ ~InProgress(discovery_list)

\* C6: candidate-gathering-done has been emitted before any
\* new-selected-pair is emitted for a component.
C6_GatheringDoneFirst ==
  Emits(events, "new-selected-pair") => gathering_done_seen

(***************************************************************************)
(* Properties of stream removal.                                           *)
(***************************************************************************)
\* C7: when remove_stream(id) returns for an existing stream the stream is
\* no longer held, no pair of the check list and no discovery item is of that
\* stream, and none of its sources is attached; for an id that names no
\* stream nothing changes.
C7_RemoveStream ==
  [][lastOp' = "remove_stream" =>
       \A id \in StreamIds :
         RemoveStream(id) =>
           LET s == agent_find_stream(streams, id)
           IN IF s = 0
              THEN UNCHANGED agentVars
              ELSE /\ Len(streams') = Len(streams) - 1
                   /\ \A k \in DOMAIN streams' : streams'[k].ptr # streams[s].ptr
                   /\ \A p \in conncheck_list' : p.owner # streams[s].ptr
                   /\ \A i \in DOMAIN discovery_list' :
                        discovery_list'[i].stream # streams[s].ptr
                   /\ \A src \in attached' : src.stream # streams[s].ptr]_vars

\* one of two streams was removed while both had pairs, discovery items and
\* sources: those of the other stream are still there
C7_Witness ==
  /\ lastOp = "remove_stream"
  /\ next_stream_id = 3
  /\ Len(streams) = 1
  /\ conncheck_list # {}
  /\ discovery_list # <<>>
  /\ attached # {}

(***************************************************************************)
(* Properties of remote candidates.                                        *)
(***************************************************************************)
\* the descriptors of the remote candidates of a component
RemoteDescs(comp) == [i \in DOMAIN comp.remote_candidates |-> comp.remote_candidates[i].desc]

\* C8: after a successful set_remote_candidates call with the list l on a
\* component, the remote candidates of the component are exactly those that
\* l describes, whatever the component held before.
C8_SetRemoteReplaces ==
  [][(lastOp' = "set_remote_candidates" /\ ~crashed') =>
       \A s \in StreamIds, c \in ComponentIds, l \in RemoteLists :
         LET f == agent_find_component(streams, s, c)
         IN (f.found /\ f.c # 0 /\ SetRemoteCandidates(s, c, l, 0, NoFault)
               /\ ret' = Len(l))
              => RemoteDescs(streams'[f.s].components[f.c]) = l]_vars

\* q starts with p
IsPrefix(p, q) == Len(p) <= Len(q) /\ \A i \in DOMAIN p : p[i] = q[i]

C10_SetRemoteReturn ==
  [][(lastOp' = "set_remote_candidates" /\ ~crashed') =>
       \A s \in 1..2, c \in ComponentIds, in \in SetRemoteInputs :
         SetRemoteCandidates(s, c, in.l, in.at, in.f) =>
           LET f == agent_find_component(streams, s, c)
               \* the first addition that fails (0: none does)
               held == f.found /\ f.c # 0
               \* the callee failure happens: a pair fails only when the
               \* component has the local candidate to pair with
               fails == \/ in.f.kind \in {"cand_alloc_fail", "list_append_fail"}
                        \/ /\ in.f.kind = "pair_fail" /\ held
                           /\ in.f.at <= Len(streams[f.s].components[f.c].local_candidates)
               first == IF in.l = <<>> THEN 0
                        ELSE IF ~f.found THEN 1
                        ELSE IF fails THEN in.at ELSE 0
               old == RemoteDescs(streams[f.s].components[f.c])
               new == RemoteDescs(streams'[f.s].components[f.c])
           IN IF first = 0
              THEN /\ ret' = Len(in.l)
                   /\ held => new = old \o in.l
              ELSE /\ ret' < 0
                   /\ held => \/ new = old \o SubSeq(in.l, 1, first - 1)
                              \/ new = old \o SubSeq(in.l, 1, first)]_vars

\* a call with two descriptors failed at the first: nothing of the second
\* descriptor is in the list
C10_Witness ==
  /\ lastOp = "set_remote_candidates"
  /\ ret = -1
  /\ ~crashed
  /\ \E k \in DOMAIN streams : \E c \in DOMAIN streams[k].components :
       /\ Len(streams[k].components[c].remote_candidates) = 1
       /\ streams[k].components[c].remote_candidates[1].freed

(***************************************************************************)
(* Properties of the main-context attachment.                              *)
(***************************************************************************)
\* C11: main_context_attach is single-shot: once a call has returned TRUE
\* the agent stays attached, and every later call returns FALSE and leaves
\* the stored context, the receive callback, its user data and the set of
\* attached sources unchanged.
C11_AttachSingleShot ==
  [][/\ main_context_set => main_context_set'
     /\ (lastOp' = "main_context_attach" /\ ret' = 1) => main_context_set'
     /\ (lastOp' = "main_context_attach" /\ main_context_set)
          => /\ ret' = 0
             /\ UNCHANGED <<main_context, read_func, read_func_data, attached>>]_vars

\* a call was refused on an agent that holds a context, a callback and
\* attached sources from an earlier call
C11_Witness ==
  /\ lastOp = "main_context_attach"
  /\ ret = 0
  /\ main_context_set
  /\ main_context = "ctx"
  /\ read_func = "func"
  /\ read_func_data = "data"
  /\ attached # {}

(***************************************************************************)
(* Properties of poll_read.                                                *)
(***************************************************************************)
\* the members of other_fds that select reports readable
ReadableOthers(other_fds, other_ready) == other_fds \cap (DOMAIN inbox \cup other_ready)

\* the list q holds each member of S once, in ascending order, and nothing else
ListsExactly(q, S) ==
  /\ Range(q) = S
  /\ \A i, j \in DOMAIN q : i < j => q[i] < q[j]

MediaWaiting ==
  /\ recv_call # NoRecv
  /\ \E k \in DOMAIN streams : \E c \in DOMAIN streams[k].components :
       /\ streams[k].ptr = recv_call.stream
       /\ streams[k].components[c].id = recv_call.component
       /\ \E fd \in DOMAIN inbox \cap Range(streams[k].components[c].sockets) :
            IsMedia(inbox[fd], recv_call.buf_len)

\* recv has returned a positive length
RecvReturned == recv_call = NoRecv /\ lastOp = "recv" /\ ret > 0

\* C13: the blocking recv selects across all sockets of the component until
\* media arrives: when a media datagram becomes readable on any socket of
\* the component, recv eventually returns a positive length, on whichever
\* sockets STUN datagrams were consumed earlier in the call.
C13_RecvReturnsMedia == MediaWaiting ~> RecvReturned

(***************************************************************************)
(* Properties of the signals.                                              *)
(***************************************************************************)
\* C14: a request to change the state of a component stores the state asked
\* for and emits component-state-changed carrying that state exactly when it
\* is a valid state different from the current one; otherwise neither the
\* state changes nor a signal is emitted. Whenever the state of a component
\* changes the signal is emitted with the new state, and no two consecutive
\* signals of one component carry the same state.
C14_StateChangeSignal ==
  [][/\ (lastOp' = "signal_component_state_change" /\ ~crashed') =>
          \A s \in StreamIds, c \in ComponentIds, state \in SignalStates :
            LET f == agent_find_component(streams, s, c)
            IN (f.found /\ f.c # 0 /\ SignalComponentStateChange(s, c, state)) =>
                 LET old == streams[f.s].components[f.c].state
                     new == streams'[f.s].components[f.c].state
                 IN IF state \in 0..(NICE_COMPONENT_STATE_LAST - 1)
                         /\ NiceComponentState[state + 1] # old
                    THEN /\ new = NiceComponentState[state + 1]
                         /\ events' = <<StateChanged(s, c, new)>>
                         /\ <<s, c>> \in DOMAIN signalled => signalled[<<s, c>>] # new
                    ELSE /\ events' = <<>>
                         /\ UNCHANGED agentVars
     /\ \A k \in DOMAIN streams, h \in DOMAIN streams' :
          streams[k].ptr = streams'[h].ptr =>
            \A c \in DOMAIN streams[k].components :
              streams[k].components[c].state # streams'[h].components[c].state
                => \E i \in DOMAIN events' :
                     events'[i] = StateChanged(streams'[h].id, streams'[h].components[c].id,
                                               streams'[h].components[c].state)]_vars

\* a component that had been signalled ready was asked to become ready
\* again: nothing was emitted
C14_Witness ==
  /\ lastOp = "signal_component_state_change"
  /\ ~crashed
  /\ events = <<>>
  /\ \E k \in DOMAIN streams : \E c \in DOMAIN streams[k].components :
       /\ streams[k].components[c].state = "ready"
       /\ <<streams[k].id, streams[k].components[c].id>> \in DOMAIN signalled
       /\ signalled[<<streams[k].id, streams[k].components[c].id>>] = "ready"

\* the transitions of the component state machine
StateEdges ==
  {<<"disconnected", "gathering">>, <<"gathering", "connecting">>,
   <<"connecting", "connected">>, <<"connected", "ready">>}
    \cup {<<from, "failed">> : from \in Range(NiceComponentState)}

\* C15: the state of a component changes only along the edges disconnected
\* to gathering, gathering to connecting, connecting to connected, connected
\* to ready and any state to failed.
C15_StateEdgesOnly ==
  [][\A k \in DOMAIN streams, h \in DOMAIN streams' :
       streams[k].ptr = streams'[h].ptr =>
         \A c \in DOMAIN streams[k].components :
           streams[k].components[c].state # streams'[h].components[c].state
             => <<streams[k].components[c].state, streams'[h].components[c].state>>
                  \in StateEdges]_vars

\* C16: initial-binding-request-received is emitted at most once per
\* stream: the first notification for a stream sets its
\* initial_binding_request_received flag and emits the signal with the id of
\* the stream, every later notification for the stream emits nothing, and
\* the flag of a stream is never cleared.
C16_InitialBindingRequestOnce ==
  [][/\ lastOp' = "signal_initial_binding_request_received" =>
          \A k \in DOMAIN streams :
            SignalInitialBindingRequestReceived(k) =>
              IF streams[k].initial_binding_request_received
              THEN events' = <<>> /\ UNCHANGED agentVars
              ELSE /\ streams'[k].initial_binding_request_received
                   /\ events' = <<InitialBindingRequestReceived(streams[k].id)>>
     /\ \A k \in DOMAIN streams, h \in DOMAIN streams' :
          (streams[k].ptr = streams'[h].ptr /\ streams[k].initial_binding_request_received)
            => streams'[h].initial_binding_request_received
     /\ \A i \in DOMAIN events' :
          (~crashed' /\ events'[i].sig = "initial-binding-request-received")
            => /\ Len(events') = 1
               /\ \E k \in DOMAIN streams :
                    /\ streams[k].id = events'[i].stream
                    /\ ~streams[k].initial_binding_request_received]_vars

\* a stream was notified a second time: nothing was emitted
C16_Witness ==
  /\ lastOp = "signal_initial_binding_request_received"
  /\ events = <<>>
  /\ \E k \in DOMAIN streams : streams[k].initial_binding_request_received

(***************************************************************************)
(* Properties of the server-reflexive discoveries add_stream queues.       *)
(***************************************************************************)
\* the number of signals sig among ev; add_stream emits new-candidate once
\* for each host candidate it creates
CountSig(ev, sig) == Cardinality({i \in DOMAIN ev : ev[i].sig = sig})

\* C17: add_stream queues a server-reflexive discovery for a host candidate
\* if and only if the agent is in full mode and has a STUN server: in that
\* case the discovery list and discovery_unsched_items grow by one for each
\* host candidate the call created, otherwise the list and the counter are
\* unchanged.
C17_DiscoveryPerHostCandidate ==
  [][(lastOp' = "add_stream" /\ ~crashed') =>
       LET hosts == CountSig(events', "new-candidate")
       IN IF full_mode /\ stun_server_ip # NULL
          THEN /\ Len(discovery_list') = Len(discovery_list) + hosts
               /\ discovery_unsched_items' = discovery_unsched_items + hosts
          ELSE UNCHANGED <<discovery_list, discovery_unsched_items>>]_vars

\* C18: no CandidateDiscovery occurs twice in the discovery list, and an
\* add_stream call adds as many entries to the list as it adds to
\* discovery_unsched_items.
C18_DiscoveryAppendedOnce ==
  [][/\ \A i, j \in DOMAIN discovery_list' :
          i # j => ~SameDiscovery(discovery_list'[i], discovery_list'[j])
     /\ (lastOp' = "add_stream" /\ ~crashed') =>
          Len(discovery_list') - Len(discovery_list)
            = discovery_unsched_items' - discovery_unsched_items]_vars

(***************************************************************************)
(* Properties of the credentials.                                          *)
(***************************************************************************)
\* the first n characters of str, the whole of it when it is shorter
Truncated(str, n) == SubSeq(str, 1, IF Len(str) < n THEN Len(str) ELSE n)

\* C19: for a stream the agent holds, get_local_credentials returns TRUE
\* with a ufrag of NICE_STREAM_DEF_UFRAG - 1 printable characters and a
\* password of NICE_STREAM_DEF_PWD - 1 printable characters, the strings
\* add_stream generated for the stream; no step changes them while the
\* stream is held, so that every call returns the same pair; for an id that
\* names no stream it returns FALSE; and the call changes nothing.
C19_LocalCredentials ==
  [][/\ lastOp' = "get_local_credentials" =>
          \A s \in StreamIds :
            GetLocalCredentials(s, TRUE, TRUE) =>
              LET k == agent_find_stream(streams, s)
              IN /\ UNCHANGED agentVars
                 /\ IF k = 0
                    THEN ~ret'.res
                    ELSE /\ ret'.res
                         /\ Len(ret'.ufrag) = NICE_STREAM_DEF_UFRAG - 1
                         /\ Len(ret'.pwd) = NICE_STREAM_DEF_PWD - 1
                         /\ Range(ret'.ufrag) \cup Range(ret'.pwd) \subseteq Printable
                         /\ ret'.ufrag = CString(streams[k].local_ufrag)
                         /\ ret'.pwd = CString(streams[k].local_password)
     /\ \A k \in DOMAIN streams, h \in DOMAIN streams' :
          streams[k].ptr = streams'[h].ptr =>
            /\ streams'[h].local_ufrag = streams[k].local_ufrag
            /\ streams'[h].local_password = streams[k].local_password]_vars

\* the credentials of the second of two streams were handed out, and they
\* are not those of the first stream
C19_Witness ==
  /\ lastOp = "get_local_credentials"
  /\ ret.res
  /\ Len(streams) = 2
  /\ ret.ufrag = CString(streams[2].local_ufrag)
  /\ ret.ufrag # CString(streams[1].local_ufrag)
  /\ CString(streams[2].remote_ufrag) # <<>>

\* C20: set_remote_credentials returns TRUE if and only if the stream exists
\* and both ufrag and pwd are given, the empty string included; on TRUE the
\* remote ufrag and password of the stream are the strings given, cut to
\* what the buffers hold with their terminator, and the other streams are
\* untouched; on FALSE nothing changes.
C20_SetRemoteCredentials ==
  [][lastOp' = "set_remote_credentials" =>
       \A s \in StreamIds, ufrag \in StringArgs, pwd \in StringArgs :
         SetRemoteCredentials(s, ufrag, pwd) =>
           LET k == agent_find_stream(streams, s)
           IN IF k # 0 /\ ufrag.ptr /\ pwd.ptr
              THEN /\ ret' = 1
                   /\ CString(streams'[k].remote_ufrag)
                        = Truncated(ufrag.str, NICE_STREAM_MAX_UFRAG - 1)
                   /\ CString(streams'[k].remote_password)
                        = Truncated(pwd.str, NICE_STREAM_MAX_PWD - 1)
                   /\ \A h \in DOMAIN streams : h # k => streams'[h] = streams[h]
                   /\ Len(streams') = Len(streams)
              ELSE /\ ret' = 0
                   /\ UNCHANGED agentVars]_vars

\* a stream that held a longer remote ufrag was given the empty ufrag, and
\* a password that fills its buffer
C20_Witness ==
  /\ lastOp = "set_remote_credentials"
  /\ ret = 1
  /\ \E k \in DOMAIN streams :
       /\ CString(streams[k].remote_ufrag) = <<>>
       /\ streams[k].remote_ufrag[2] # NUL
       /\ Len(CString(streams[k].remote_password)) = NICE_STREAM_MAX_PWD - 1

(***************************************************************************)
(* Properties of the teardown.                                             *)
(***************************************************************************)
\* no discovery item or timer, check item or timer, or keepalive timer exists
NoEngineState ==
  /\ discovery_list = <<>> /\ discovery_timer_id = 0
  /\ conncheck_list = {} /\ conncheck_timer_id = 0
  /\ keepalive_timer_id = 0

\* C21: dispose tears down in order. Its statement that frees check items
\* and timers runs when no discovery item or timer is left, the one that
\* removes the keepalive timer when no check item or timer is left either,
\* the one that frees the streams (and closes their sockets) when no
\* discovery item, check item or timer of the three kinds exists any longer,
\* the one that frees the server settings when no stream is left, and the
\* one that frees the random generator when everything else is released; when
\* the random generator is freed nothing of the agent is left.
C21_DisposeOrder ==
  [][lastOp' = "dispose" =>
       /\ (conncheck_list' # conncheck_list \/ conncheck_timer_id' # conncheck_timer_id)
            => discovery_list = <<>> /\ discovery_timer_id = 0
       /\ keepalive_timer_id' # keepalive_timer_id
            => /\ discovery_list = <<>> /\ discovery_timer_id = 0
               /\ conncheck_list = {} /\ conncheck_timer_id = 0
       /\ streams' # streams => NoEngineState
       /\ stun_server_ip' # stun_server_ip => NoEngineState /\ streams = <<>>
       /\ rng' # rng => /\ NoEngineState
                        /\ streams = <<>> /\ local_addresses = <<>>
                        /\ stun_server_ip = NULL
       /\ rng' = NULL => /\ NoEngineState'
                         /\ streams' = <<>> /\ local_addresses' = <<>>
                         /\ stun_server_ip' = NULL]_vars

\* dispose has just freed the streams of an agent that held streams with
\* sources and discoveries in progress: the server settings and the random
\* generator are still there
C21_Witness ==
  /\ lastOp = "dispose"
  /\ ~gathering_done_seen
  /\ attached # {}
  /\ streams = <<>>
  /\ NoEngineState
  /\ stun_server_ip # NULL
  /\ rng # NULL

(***************************************************************************)
(* Properties of add_stream.                                               *)
(***************************************************************************)
\* C22: an add_stream call that returns 0 has no observable effect: the
\* stream list is what it was before the call, the agent holds no stream
\* with id 0, and the call emitted no candidate-gathering-done.
C22_FailedAddStreamNoEffect ==
  [][lastOp' = "add_stream" /\ ~crashed' /\ ret' = 0 =>
       /\ streams' = streams
       /\ \A k \in DOMAIN streams' : streams'[k].id # 0
       /\ ~Emits(events', "candidate-gathering-done")]_vars

\* the host candidates of a component, in the order of their creation
HostCandidates(comp) ==
  LET IsHost(cand) == cand.type = "host"
  IN SelectSeq(comp.local_candidates, IsHost)

\* the number of host candidates of a stream
RECURSIVE HostCount(_, _)
HostCount(stream, c) ==
  IF c > Len(stream.components) THEN 0
  ELSE Len(HostCandidates(stream.components[c])) + HostCount(stream, c + 1)

\* the (address, component) steps that come before step p in add_stream(n)
StepsBefore(p, n) ==
  {q \in Positions(n) : q[1] < p[1] \/ (q[1] = p[1] /\ q[2] < p[2])}

\* C23: a successful add_stream(n) creates exactly one host candidate for
\* every local address and every component id in 1..n; when a host candidate
\* cannot be created, the stream the call made holds the host candidates of
\* the steps before that one and no other.
C23_HostCandidates ==
  [][lastOp' = "add_stream" /\ ~crashed' =>
       \A n \in 1..MaxComponents : \A plan \in Plans(n) :
         \A af \in 0..(MaxAddrs * MaxComponents) :
           AddStream(n, TRUE, plan, af, RngOutput) /\ ~NoLocalAddress =>
             LET new == streams'[Len(streams')]
             IN /\ ret' > 0 =>
                     /\ Len(new.components) = n
                     /\ \A c \in 1..n :
                          /\ new.components[c].id = c
                          /\ [i \in DOMAIN HostCandidates(new.components[c]) |->
                                HostCandidates(new.components[c])[i].addr] = local_addresses
                /\ \A p \in Positions(n) :
                     plan[p] = "host_fail" =>
                       HostCount(new, 1) = Cardinality(StepsBefore(p, n))]_vars

(***************************************************************************)
(* Properties of the installation of remote candidates.                    *)
(***************************************************************************)
\* the call installed at least one remote candidate
Installed ==
  \/ lastOp' = "add_remote_candidate" /\ ret' = 1
  \/ lastOp' = "set_remote_candidates" /\ ret' > 0

\* every remote candidate the step added to a component is paired with each
\* local candidate of the component
PairsFormed ==
  \A s \in DOMAIN streams' : \A c \in DOMAIN streams'[s].components :
    LET old == streams[s].components[c]
        new == streams'[s].components[c]
    IN \A r \in (Len(old.remote_candidates) + 1)..Len(new.remote_candidates) :
         \A l \in DOMAIN new.local_candidates :
           CandidatePair(streams'[s], new.id, l, r) \in conncheck_list'

\* C24: when add_remote_candidate returns TRUE or set_remote_candidates a
\* positive count, the pairs of the new candidates are in the check list and
\* the check timer runs when the call returns.
C24_ChecksScheduled ==
  [][Installed /\ ~crashed' => PairsFormed /\ conncheck_timer_id' # 0]_vars

(***************************************************************************)
(* Properties of the calls addressed by (stream id, component id).         *)
(***************************************************************************)
\* the call returned r and left the agent as it was
Refused(r) == ~crashed' /\ recv_call' = NoRecv /\ ret' = r /\ UNCHANGED agentVars

\* C25: a call addressed to a (stream id, component id) that names no
\* component of the agent returns its failure value and leaves the agent
\* unchanged: FALSE for add_remote_candidate, a negative value for
\* set_remote_candidates with a list that is not empty, the empty list for
\* get_local_candidates and get_remote_candidates, 0 for recv and recv_sock,
\* -1 for send, and no signal for a state-change request.
C25_MissingComponent ==
  [][\A s \in StreamIds : \A c \in ComponentIds :
       ~Names(s, c) =>
         /\ lastOp' = "add_remote_candidate" =>
              (AddRemoteCandidate(s, c, "d1", NoFault) => Refused(0))
         /\ lastOp' = "set_remote_candidates" =>
              (SetRemoteCandidates(s, c, <<"d1">>, 0, NoFault) => ~crashed' /\ ret' < 0
                                                                  /\ UNCHANGED agentVars)
         /\ lastOp' = "get_local_candidates" =>
              (GetLocalCandidates(s, c) => Refused(<<>>))
         /\ lastOp' = "get_remote_candidates" =>
              (GetRemoteCandidates(s, c) => Refused(<<>>))
         /\ lastOp' \in {"recv", "recv_select"} =>
              (Recv(s, c, MAX_STUN_DATAGRAM_PAYLOAD) => Refused(0))
         /\ lastOp' = "recv_sock" =>
              \A sock \in 1..MaxComponents :
                RecvSock(s, c, sock, MAX_STUN_DATAGRAM_PAYLOAD) => Refused(0)
         /\ lastOp' = "send" =>
              \A ub \in Garbage :
                Send(s, c, MAX_STUN_DATAGRAM_PAYLOAD, ub) => Refused(-1)
         /\ lastOp' = "signal_component_state_change" =>
              (SignalComponentStateChange(s, c, StateReady) => Refused(0) /\ events' = <<>>)]_vars

(***************************************************************************)
(* Properties of failed additions of remote candidates.                    *)
(***************************************************************************)
\* C26: every entry of the remote candidate list of every component is a
\* candidate that was not freed; a candidate whose addition failed is not
\* left in the list.
C26_RemoteCandidatesLive ==
  \A s \in DOMAIN streams : \A c \in DOMAIN streams[s].components :
    \A i \in DOMAIN streams[s].components[c].remote_candidates :
      ~streams[s].components[c].remote_candidates[i].freed

\* the remote candidates and the pairs of the component (stream_id,
\* component_id) names
Installation(strs, list, stream_id, component_id) ==
  LET f == agent_find_component(strs, stream_id, component_id)
  IN [remote |-> strs[f.s].components[f.c].remote_candidates,
      pairs |-> {p \in list : p.owner = strs[f.s].ptr /\ p.component_id = component_id}]

\* C27: set_remote_candidates is all-or-nothing: when it returns a negative
\* value the remote candidate list and the pairs of the component it names
\* are what they were before the call.
C27_SetRemoteAllOrNothing ==
  [][lastOp' = "set_remote_candidates" /\ ~crashed' /\ ret' < 0 =>
       \A s \in 1..2 : \A c \in ComponentIds : \A in \in SetRemoteInputs :
         Names(s, c) /\ SetRemoteCandidates(s, c, in.l, in.at, in.f) =>
           Installation(streams', conncheck_list', s, c)
             = Installation(streams, conncheck_list, s, c)]_vars

(***************************************************************************)
(* Properties of the main-loop sources.                                    *)
(***************************************************************************)
\* the attached sources that watch socket fd
SourcesOf(fd) == {src \in attached : src.fd = fd}

\* C28: once main_context_attach has returned TRUE, each socket of each
\* stream the agent holds has exactly one source attached, and every attached
\* source belongs to a stream the agent holds.
C28_OneSourcePerSocket ==
  main_context_set =>
    /\ \A fd \in AllSockets(streams) : Cardinality(SourcesOf(fd)) = 1
    /\ \A src \in attached : StreamByPtr(streams, src.stream) # 0

\* C29: after dispose nothing the agent registered can fire: no discovery,
\* check or keepalive timer is pending and no source of a socket of the agent
\* is attached.
C29_NothingFiresAfterDispose ==
  dispose_pc = Len(DisposeSteps) =>
    /\ discovery_timer_id = 0
    /\ conncheck_timer_id = 0
    /\ keepalive_timer_id = 0
    /\ attached = {}

(***************************************************************************)
(* Properties of the keepalive timer.                                      *)
(***************************************************************************)
\* C30: the keepalive timer never outlives the streams. An agent without
\* stream has no keepalive timer; a remove_stream that removes the last
\* stream leaves keepalive_timer_id 0, and a remove_stream that leaves a
\* stream or removes none leaves the timer as it was.
C30_KeepaliveWithStreams ==
  [][/\ streams' = <<>> => keepalive_timer_id' = 0
     /\ lastOp' = "remove_stream" =>
          IF streams' # streams /\ streams' = <<>>
          THEN keepalive_timer_id' = 0
          ELSE keepalive_timer_id' = keepalive_timer_id]_vars

\* remove_stream has removed one of two streams while the keepalive timer
\* runs: the timer is still there, and the next removal takes the last stream
C30_Witness ==
  /\ lastOp = "remove_stream"
  /\ Len(streams) = 1
  /\ keepalive_timer_id # 0

(***************************************************************************)
(* Properties of outgoing media.                                           *)
(***************************************************************************)
\* the media_after_tick flag of every component
MediaAfterTick(strs) ==
  [s \in DOMAIN strs |->
     [c \in DOMAIN strs[s].components |-> strs[s].components[c].media_after_tick]]

\* C31: send sets media_after_tick of the component it names exactly when it
\* transmits on the selected pair; a send that transmits nothing, and a send
\* that returns -1, leave every flag as it was, and no send changes the flag
\* of another component.
C31_MediaAfterTick ==
  [][lastOp' = "send" /\ ~crashed' =>
       \A s \in StreamIds : \A c \in 1..MaxComponents :
         \A len \in Lens : \A ub \in Garbage :
           Send(s, c, len, ub) =>
             LET f == agent_find_component(streams, s, c)
             IN /\ sent' # <<>> =>
                     MediaAfterTick(streams')
                       = [MediaAfterTick(streams) EXCEPT ![f.s][f.c] = TRUE]
                /\ sent' = <<>> => MediaAfterTick(streams') = MediaAfterTick(streams)
                /\ ret' = -1 => MediaAfterTick(streams') = MediaAfterTick(streams)]_vars
====
